---- MODULE Spec2Model ----
(***************************************************************************)
(* A model of the credential/session lifecycle (CrowdStrikeProvider), the  *)
(* tool registry (ToolRegistry) and the tool modules' dispatch functions   *)
(* (hosts, detections, incidents) of mcp_crowdstrike.                      *)
(*                                                                         *)
(* Every request is a task of one asyncio event loop.  A task runs its     *)
(* handler step by step; `running` is the task the event loop is           *)
(* executing, and another task runs only when the running one finishes or  *)
(* suspends at an await.  Python strings that the code formats are         *)
(* sequences of pieces (an f-string is the concatenation of its pieces).   *)
(***************************************************************************)
EXTENDS Integers, Sequences, FiniteSets, TLC

VARIABLES
    provider,   \* the fields of the one shared CrowdStrikeProvider
    tools,      \* ToolRegistry._tools: name -> Tool
    now,        \* time.time()
    issued,     \* number of access tokens the remote service has issued
    running,    \* the task the event loop is executing (0: none)
    pc,         \* pc[t]: the position of task t in its handler
    op,         \* op[t]: the operation task t executes, with its arguments
    trace,      \* trace[t]: the provider-level and remote calls of op[t], in order
    inner,      \* inner[t]: how the tool module's execute_tool ended
    ret,        \* ret[t]: how the operation ended (returned value or exception)
    lastOp,     \* the provider lifecycle method that completed last
    client,     \* CrowdStrikeClient._initialized of the one SDK client
    mcp_server  \* whether main._mcp_server holds a server

vars == <<provider, tools, now, issued, running, pc, op, trace, inner, ret, lastOp,
          client, mcp_server>>

----------------------------------------------------------------------------
(* Bounds of the model *)

NumTasks == 2
StartTime == 1
MaxTicks == 1
MaxAuth == 2

Tasks == 1..NumTasks

----------------------------------------------------------------------------
(* Program constants *)

SafetyBuffer == 300
DefaultExpiresIn == 1800
AuthCreated == 201

\* The model's clock advances by the default lifetime of a stored expiry
TickStep == DefaultExpiresIn - SafetyBuffer

(* Python's None, one per type of the value it stands in for *)
NoneStr == "<None>"
NoneInt == -1
NoneRec == [none |-> TRUE]
EmptyDict == [k \in {} |-> k]

----------------------------------------------------------------------------
(* The remote service, seen from the provider *)

NoClient == [present |-> FALSE, token_value |-> 0]
NoHandle == [present |-> FALSE, access_token |-> 0]

\* The responses of the authentication exchange OAuth2.token().  access_token is
\* "valid" (a fresh non-empty token), "empty" (the empty string) or "absent" (no
\* such key in the body); expires_in is NoneInt when the body has no such key.
AuthResponses ==
    { [raises |-> TRUE, status_code |-> 0, expires_in |-> NoneInt, access_token |-> "absent"],
      [raises |-> FALSE, status_code |-> 401, expires_in |-> NoneInt, access_token |-> "absent"] }
    \cup
    [raises : {FALSE}, status_code : {AuthCreated},
     expires_in : {NoneInt, SafetyBuffer},
     access_token : {"valid", "empty", "absent"}]

\* The outcomes of OAuth2.revoke(): it succeeds, answers an error, or throws.
RevokeOutcomes == {"ok", "error", "throws"}

----------------------------------------------------------------------------
(* CrowdStrikeProvider *)

NewProvider ==
    [oauth2 |-> NoClient, hosts |-> NoHandle, detects |-> NoHandle,
     incidents |-> NoHandle, token_expiry |-> 0, initialized |-> FALSE]

Raises(exc, msg) == [kind |-> "raise", exc |-> exc, msg |-> msg]
Returns(value) == [kind |-> "return", value |-> value]
NoResult == [kind |-> "none"]

\* The access token the body of a 201 response carries: the next token of the
\* service, or 0 for the empty string.
TokenOf(auth, tok) == IF auth.access_token = "valid" THEN tok ELSE 0

\* The body of initialize() past its guard: the OAuth2 client is created, the
\* token is requested, the expiry is stored, the three handles are built.  Any
\* exception inside is re-raised as ConnectionError; nothing is undone.
Authenticate(p, auth, time, tok) ==
    LET withClient == [p EXCEPT !.oauth2 =
                          [present |-> TRUE,
                           token_value |-> IF ~auth.raises /\ auth.status_code = AuthCreated
                                           THEN TokenOf(auth, tok) ELSE 0]]
        failed(q, cause) ==
            [provider |-> q, events |-> <<[ev |-> "auth", time |-> time]>>,
             result |-> Raises("ConnectionError",
                              <<"Failed to initialize provider: ">> \o cause)]
    IN
    IF auth.raises
    THEN failed(withClient, <<"token request failed">>)
    ELSE IF auth.status_code # AuthCreated
    THEN failed(withClient, <<"Authentication failed: ", "Unknown authentication error">>)
    ELSE
      LET expires_in == IF auth.expires_in = NoneInt THEN DefaultExpiresIn
                        ELSE auth.expires_in
          withExpiry == [withClient EXCEPT
                           !.token_expiry = time + expires_in - SafetyBuffer]
      IN
      IF auth.access_token = "absent"
      THEN failed(withExpiry, <<"'access_token'">>)
      ELSE
        LET handle == [present |-> TRUE, access_token |-> TokenOf(auth, tok)]
        IN [provider |-> [withExpiry EXCEPT !.hosts = handle, !.detects = handle,
                                            !.incidents = handle,
                                            !.initialized = TRUE],
            events |-> <<[ev |-> "auth", time |-> time]>>,
            result |-> Returns(NoneStr)]

\* initialize() without the test of _initialized
initializeUnguarded(p, auth, time, tok) == Authenticate(p, auth, time, tok)

\* initialize(): the provider it leaves, the remote calls it made and how it ended.
initialize(p, auth, time, tok) ==
    IF p.initialized
    THEN [provider |-> p, events |-> <<>>, result |-> Returns(NoneStr)]
    ELSE Authenticate(p, auth, time, tok)

\* shutdown() that clears the client and the handles but not the _initialized flag
ClearedButFlag(p) ==
    [p EXCEPT !.oauth2 = NoClient, !.hosts = NoHandle, !.detects = NoHandle,
              !.incidents = NoHandle]

\* The fields shutdown() clears; the expiry is not among them.
Cleared(p) ==
    [p EXCEPT !.oauth2 = NoClient, !.hosts = NoHandle, !.detects = NoHandle,
              !.incidents = NoHandle, !.initialized = FALSE]

Revoke(outcome) == [ev |-> "revoke", outcome |-> outcome]

\* shutdown() without the test of _oauth2: revocation is attempted in any case
shutdownRevokesAlways(p, revoke) ==
    [provider |-> Cleared(p), events |-> <<Revoke(revoke)>>, result |-> Returns(NoneStr)]

\* shutdown() without the try around revoke(): what revoke() throws ends it
shutdownUncaught(p, revoke) ==
    IF p.oauth2.present /\ revoke = "throws"
    THEN [provider |-> p, events |-> <<Revoke(revoke)>>,
          result |-> Raises("Exception", <<"revoke failed">>)]
    ELSE [provider |-> Cleared(p),
          events |-> IF p.oauth2.present THEN <<Revoke(revoke)>> ELSE <<>>,
          result |-> Returns(NoneStr)]

\* shutdown() that attempts the revocation and leaves every field as it was
shutdownKeepsSession(p, revoke) ==
    [provider |-> p,
     events |-> IF p.oauth2.present THEN <<Revoke(revoke)>> ELSE <<>>,
     result |-> Returns(NoneStr)]

\* shutdown(): revocation is attempted when an OAuth2 client exists and whatever it
\* does is swallowed; then every field but the expiry is cleared.
shutdown(p, revoke) ==
    [provider |-> Cleared(p),
     events |-> IF p.oauth2.present THEN <<Revoke(revoke)>> ELSE <<>>,
     result |-> Returns(NoneStr)]

\* The test of refresh_token_if_needed() made only on a provider that is initialized
TokenExpiredWhenReady(p, time) == p.initialized /\ time >= p.token_expiry

\* The test of refresh_token_if_needed() and of health_check(), with > for >=
TokenExpiredStrictly(p, time) == time > p.token_expiry

\* The test of refresh_token_if_needed() and of health_check().
TokenExpired(p, time) == time >= p.token_expiry

\* The hosts / detects / incidents properties.
Accessor(p, area) ==
    IF ~p.initialized \/ ~p[area].present
    THEN Raises("RuntimeError", <<"Provider not initialized">>)
    ELSE Returns(p[area])

\* get_client() without the test of _initialized
get_clientUnchecked(p) ==
    Returns([hosts |-> p.hosts, detects |-> p.detects, incidents |-> p.incidents])

\* get_client()
get_client(p) ==
    IF ~p.initialized
    THEN Raises("RuntimeError", <<"Provider not initialized. Call initialize() first.">>)
    ELSE Returns([hosts |-> p.hosts, detects |-> p.detects, incidents |-> p.incidents])

\* Every await hands control back to the event loop
AwaitYields(callee) == TRUE

\* Whether awaiting the named coroutine hands control back to the event loop
\* before it completes.  shutdown(), initialize(), refresh_token_if_needed() and
\* the tool functions contain no await on I/O: FalconPy's calls are synchronous.
AwaitSuspends(callee) == FALSE

----------------------------------------------------------------------------
(* utils/responses.py: the result envelope, a dict with optional keys *)

success_response(data, metadata) ==
    [success |-> TRUE, data |-> data]
        @@ (IF metadata # NoneRec THEN [metadata |-> metadata] ELSE EmptyDict)

\* error_response() with the text under the key "message"
error_responseAsMessage(error, tool_name, status_code, details) ==
    [success |-> FALSE, message |-> error]
        @@ (IF tool_name # NoneStr THEN [tool |-> tool_name] ELSE EmptyDict)
        @@ (IF status_code # NoneInt THEN [status_code |-> status_code] ELSE EmptyDict)
        @@ (IF details # NoneRec THEN [details |-> details] ELSE EmptyDict)

error_response(error, tool_name, status_code, details) ==
    [success |-> FALSE, error |-> error]
        @@ (IF tool_name # NoneStr THEN [tool |-> tool_name] ELSE EmptyDict)
        @@ (IF status_code # NoneInt THEN [status_code |-> status_code] ELSE EmptyDict)
        @@ (IF details # NoneRec THEN [details |-> details] ELSE EmptyDict)

validation_error_response(field, message, tool_name) ==
    error_response(<<"Validation error">>, tool_name, NoneInt,
                   [field |-> field, message |-> message])

api_error_response(api_name, status_code, message, tool_name) ==
    error_response(<<api_name, " API error">>, tool_name, status_code,
                   [api |-> api_name, message |-> message])

----------------------------------------------------------------------------
(* The arguments of a tool: a dict.  dict.get(key) and dict.get(key, default) *)

GetStr(d, k) == IF k \in DOMAIN d THEN d[k] ELSE NoneStr
GetList(d, k) == IF k \in DOMAIN d THEN d[k] ELSE <<>>

\* dict.get(key, default) giving the default whatever the dict holds
GetIntDefault(d, k, default) == default

GetInt(d, k, default) == IF k \in DOMAIN d THEN d[k] ELSE default

\* "is not None" in the place of truthiness: the empty string passes
TruthyStrNotNone(s) == s # NoneStr

\* Python truthiness of an optional string and of a list
TruthyStr(s) == s # NoneStr /\ s # ""
TruthyList(l) == Len(l) > 0

\* {key: value} whether the condition holds or not
DictAlways(cond, k, v) == (k :> v)

\* {key: value} when the condition holds, {} otherwise
DictIf(cond, k, v) == IF cond THEN (k :> v) ELSE EmptyDict

----------------------------------------------------------------------------
(* The remote service, seen from a tool: the (status_code, body) a FalconPy   *)
(* call returns, or an exception.  total is body.meta.pagination.total and    *)
(* errors is body.errors; NoneInt / NoneStr when the body has no such key.    *)

ApiResponse(raises, status_code, resources, total, errors) ==
    [raises |-> raises, status_code |-> status_code, resources |-> resources,
     total |-> total, errors |-> errors]

ApiResponses ==
    << ApiResponse(TRUE, 0, <<>>, NoneInt, NoneStr),
       ApiResponse(FALSE, 200, <<"r1", "r2">>, 5, NoneStr),
       ApiResponse(FALSE, 200, <<"r1">>, NoneInt, NoneStr),
       ApiResponse(FALSE, 202, <<"r1">>, NoneInt, NoneStr),
       ApiResponse(FALSE, 500, <<>>, NoneInt, "server error"),
       ApiResponse(FALSE, 404, <<>>, NoneInt, NoneStr) >>

\* str(response.get("body", {}).get("errors", "Unknown error"))
ErrorsText(resp) == IF resp.errors = NoneStr THEN <<"Unknown error">> ELSE <<resp.errors>>

\* One call of a FalconPy service collection, as the trace records it
BusinessCall(api, params, handle, p, time) ==
    [ev |-> "business", api |-> api, params |-> params,
     token |-> handle.access_token, time |-> time, expiry |-> p.token_expiry]

Event(name) == [ev |-> name]

\* What a tool function gives back: its envelope and the remote calls it made
ToolResult(envelope, events) == [envelope |-> envelope, events |-> events]

----------------------------------------------------------------------------
(* tools/crowdstrike: the tool functions.  Each takes the provider, the       *)
(* arguments, the answer the remote service gives if it is called, and the    *)
(* time.  The three query tools, the three details tools and the two host     *)
(* actions share one shape each.                                              *)

DefaultLimit == 100
DefaultOffset == 0
ApiName == "CrowdStrike Falcon"
RemoteFailure == <<"remote call failed">>

\* except Exception as e: return error_response(error=f"<text>: {str(e)}", tool_name=<tool>)
Caught(text, msg, tool, events) ==
    ToolResult(error_response(<<text>> \o msg, tool, NoneInt, NoneRec), events)

\* The API error envelope with the status code 500 whatever the remote status was
ApiErrorGeneric(resp, tool, events) ==
    ToolResult(api_error_response(ApiName, 500, ErrorsText(resp), tool), events)

\* The remote call issued once more after a non-success answer
ApiErrorRetried(resp, tool, events) ==
    ToolResult(api_error_response(ApiName, resp.status_code, ErrorsText(resp), tool),
               events \o SelectSeq(events, LAMBDA e : e.ev = "business"))

ApiError(resp, tool, events) ==
    ToolResult(api_error_response(ApiName, resp.status_code, ErrorsText(resp), tool),
               events)

QueryTool(tool, area, api, idkey, text, p, arguments, resp, time) ==
    LET filter_expr == GetStr(arguments, "filter")
        limit == GetInt(arguments, "limit", DefaultLimit)
        offset == GetInt(arguments, "offset", DefaultOffset)
        sort == GetStr(arguments, "sort")
        query_params == [limit |-> limit, offset |-> offset]
                            @@ DictIf(TruthyStr(filter_expr), "filter", filter_expr)
                            @@ DictIf(TruthyStr(sort), "sort", sort)
        handle == Accessor(p, area)
    IN
    IF handle.kind = "raise" THEN Caught(text, handle.msg, tool, <<>>)
    ELSE
      LET call == <<BusinessCall(api, query_params, handle.value, p, time)>> IN
      IF resp.raises THEN Caught(text, RemoteFailure, tool, call)
      ELSE IF resp.status_code # 200 THEN ApiError(resp, tool, call)
      ELSE
        LET ids == resp.resources
            total == IF resp.total = NoneInt THEN Len(ids) ELSE resp.total
        IN ToolResult(success_response((idkey :> ids),
                                       [total |-> total, limit |-> limit,
                                        offset |-> offset]),
                      call)

DetailsTool(tool, area, api, argkey, required, datakey, text, p, arguments, resp, time) ==
    LET ids == GetList(arguments, argkey) IN
    IF ~TruthyList(ids)
    THEN ToolResult(validation_error_response(argkey, <<required>>, tool), <<>>)
    ELSE
      LET handle == Accessor(p, area) IN
      IF handle.kind = "raise" THEN Caught(text, handle.msg, tool, <<>>)
      ELSE
        LET call == <<BusinessCall(api, [ids |-> ids], handle.value, p, time)>> IN
        IF resp.raises THEN Caught(text, RemoteFailure, tool, call)
        ELSE IF resp.status_code # 200 THEN ApiError(resp, tool, call)
        ELSE ToolResult(success_response((datakey :> resp.resources),
                                         [count |-> Len(resp.resources)]),
                        call)

Log(level, message) == [ev |-> "log", level |-> level, message |-> message]

HostAction(tool, action_name, done, text, before, failure, after, caught, p, arguments, resp, time) ==
    LET device_id == GetStr(arguments, "device_id") IN
    IF ~TruthyStr(device_id)
    THEN ToolResult(validation_error_response("device_id", <<"Device ID is required">>,
                                              tool), <<>>)
    ELSE
      LET handle == Accessor(p, "hosts") IN
      IF handle.kind = "raise" THEN Caught(text, handle.msg, tool, <<before, caught>>)
      ELSE
        LET call == <<before,
                      BusinessCall("hosts.perform_action",
                                   [action_name |-> action_name, ids |-> <<device_id>>],
                                   handle.value, p, time)>>
        IN
        IF resp.raises THEN Caught(text, RemoteFailure, tool, call \o <<caught>>)
        ELSE IF resp.status_code \notin {200, 202}
        THEN ApiError(resp, tool, call \o failure)
        ELSE ToolResult(success_response([device_id |-> device_id, action |-> done,
                                          status |-> "success"], NoneRec),
                        call \o <<after>>)

query_devices_by_filter(p, arguments, resp, time) ==
    QueryTool("query_devices_by_filter", "hosts", "hosts.query_devices_by_filter",
              "device_ids", "Failed to query devices: ", p, arguments, resp, time)

get_device_details(p, arguments, resp, time) ==
    DetailsTool("get_device_details", "hosts", "hosts.get_device_details",
                "device_ids", "At least one device ID is required", "devices",
                "Failed to get device details: ", p, arguments, resp, time)

\* _contain_host() that logs nothing when the remote status is not a success
contain_hostSilentFailure(p, arguments, resp, time) ==
    HostAction("contain_host", "contain", "contained", "Failed to contain host: ",
               Log("warning", "CRITICAL ACTION: Initiating host containment"),
               <<>>,
               Log("warning", "CRITICAL ACTION: Host containment successful"),
               Log("error", "Failed to contain host"),
               p, arguments, resp, time)

contain_host(p, arguments, resp, time) ==
    HostAction("contain_host", "contain", "contained", "Failed to contain host: ",
               Log("warning", "CRITICAL ACTION: Initiating host containment"),
               <<Log("error", "Host containment failed")>>,
               Log("warning", "CRITICAL ACTION: Host containment successful"),
               Log("error", "Failed to contain host"),
               p, arguments, resp, time)

lift_containment(p, arguments, resp, time) ==
    HostAction("lift_containment", "lift_containment", "containment_lifted",
               "Failed to lift containment: ",
               Log("info", "Lifting host containment"),
               <<>>,
               Log("info", "Host containment lifted successfully"),
               Log("error", "Failed to lift containment"),
               p, arguments, resp, time)

query_detections(p, arguments, resp, time) ==
    QueryTool("query_detections", "detects", "detects.query_detects",
              "detection_ids", "Failed to query detections: ", p, arguments, resp, time)

get_detection_details(p, arguments, resp, time) ==
    DetailsTool("get_detection_details", "detects", "detects.get_detect_summaries",
                "detection_ids", "At least one detection ID is required", "detections",
                "Failed to get detection details: ", p, arguments, resp, time)

\* The list without its last entry
VALID_STATUSES_Short ==
    <<"new", "in_progress", "true_positive", "false_positive", "closed", "ignored">>

VALID_STATUSES ==
    <<"new", "in_progress", "true_positive", "false_positive", "closed", "ignored",
      "reopened">>

\* ', '.join(VALID_STATUSES): the pieces of the joined text
RECURSIVE Join(_, _)
Join(sep, l) ==
    IF Len(l) = 0 THEN <<>>
    ELSE IF Len(l) = 1 THEN <<l[1]>>
    ELSE <<l[1], sep>> \o Join(sep, Tail(l))

update_detection_status(p, arguments, resp, time) ==
    LET tool == "update_detection_status"
        text == "Failed to update detection status: "
        detection_ids == GetList(arguments, "detection_ids")
        status == GetStr(arguments, "status")
        comment == GetStr(arguments, "comment")
    IN
    IF ~TruthyList(detection_ids)
    THEN ToolResult(validation_error_response(
                        "detection_ids", <<"At least one detection ID is required">>, tool),
                    <<>>)
    ELSE IF ~TruthyStr(status)
    THEN ToolResult(validation_error_response("status", <<"Status is required">>, tool),
                    <<>>)
    ELSE IF \A i \in 1..Len(VALID_STATUSES) : VALID_STATUSES[i] # status
    THEN ToolResult(validation_error_response(
                        "status",
                        <<"Invalid status. Must be one of: ">> \o Join(", ", VALID_STATUSES),
                        tool),
                    <<>>)
    ELSE
      LET update_payload == [ids |-> detection_ids, status |-> status]
                                @@ DictIf(TruthyStr(comment), "comment", comment)
          handle == Accessor(p, "detects")
      IN
      IF handle.kind = "raise" THEN Caught(text, handle.msg, tool, <<>>)
      ELSE
        LET call == <<BusinessCall("detects.update_detects_by_ids", update_payload,
                                   handle.value, p, time)>>
        IN
        IF resp.raises THEN Caught(text, RemoteFailure, tool, call)
        ELSE IF resp.status_code \notin {200, 202} THEN ApiError(resp, tool, call)
        ELSE ToolResult(success_response([updated_count |-> Len(detection_ids),
                                          detection_ids |-> detection_ids,
                                          status |-> status], NoneRec),
                        call)

query_incidents(p, arguments, resp, time) ==
    QueryTool("query_incidents", "incidents", "incidents.query_incidents",
              "incident_ids", "Failed to query incidents: ", p, arguments, resp, time)

get_incident_details(p, arguments, resp, time) ==
    DetailsTool("get_incident_details", "incidents", "incidents.get_incidents",
                "incident_ids", "At least one incident ID is required", "incidents",
                "Failed to get incident details: ", p, arguments, resp, time)

UnknownTool(tool_name) ==
    ToolResult(error_response(<<"Unknown tool: ", tool_name>>, tool_name, NoneInt, NoneRec),
               <<>>)

\* The routing of each module's execute_tool, after its token refresh
hosts_route(p, tool_name, arguments, resp, time) ==
    CASE tool_name = "query_devices_by_filter" -> query_devices_by_filter(p, arguments, resp, time)
      [] tool_name = "get_device_details" -> get_device_details(p, arguments, resp, time)
      [] tool_name = "contain_host" -> contain_host(p, arguments, resp, time)
      [] tool_name = "lift_containment" -> lift_containment(p, arguments, resp, time)
      [] OTHER -> UnknownTool(tool_name)

detections_route(p, tool_name, arguments, resp, time) ==
    CASE tool_name = "query_detections" -> query_detections(p, arguments, resp, time)
      [] tool_name = "get_detection_details" -> get_detection_details(p, arguments, resp, time)
      [] tool_name = "update_detection_status" -> update_detection_status(p, arguments, resp, time)
      [] OTHER -> UnknownTool(tool_name)

incidents_route(p, tool_name, arguments, resp, time) ==
    CASE tool_name = "query_incidents" -> query_incidents(p, arguments, resp, time)
      [] tool_name = "get_incident_details" -> get_incident_details(p, arguments, resp, time)
      [] OTHER -> UnknownTool(tool_name)

Modules == <<"hosts", "detections", "incidents">>

Route(module, p, tool_name, arguments, resp, time) ==
    CASE module = "hosts" -> hosts_route(p, tool_name, arguments, resp, time)
      [] module = "detections" -> detections_route(p, tool_name, arguments, resp, time)
      [] module = "incidents" -> incidents_route(p, tool_name, arguments, resp, time)

\* get_tools() of each module: the names it declares, in order
get_tools(module) ==
    CASE module = "hosts" -> <<"query_devices_by_filter", "get_device_details",
                               "contain_host", "lift_containment">>
      [] module = "detections" -> <<"query_detections", "get_detection_details",
                                    "update_detection_status">>
      [] module = "incidents" -> <<"query_incidents", "get_incident_details">>

----------------------------------------------------------------------------
(* tools/registry.py *)

\* execute_tool of a tool module refreshing the token only for a name it declares
execute_toolKnownOnly(module, p, tool_name, arguments, remote, time, tok) ==
    IF \A i \in 1..Len(get_tools(module)) : get_tools(module)[i] # tool_name
    THEN [provider |-> p, events |-> <<>>,
          result |-> Returns(UnknownTool(tool_name).envelope)]
    ELSE
      LET f == IF ~TokenExpired(p, time)
               THEN [provider |-> p, events |-> <<>>, result |-> Returns(NoneStr)]
               ELSE LET s == shutdown(p, remote.revoke)
                        i == initialize(s.provider, remote.auth, time, tok)
                    IN [provider |-> i.provider,
                        events |-> s.events \o <<Event("shutdown")>> \o i.events
                                     \o <<Event(IF i.result.kind = "raise"
                                                THEN "initialize_failed" ELSE "initialize")>>,
                        result |-> i.result]
      IN IF f.result.kind = "raise" THEN f
         ELSE LET r == Route(module, f.provider, tool_name, arguments, remote.resp, time)
              IN [provider |-> f.provider, events |-> f.events \o r.events,
                  result |-> Returns(r.envelope)]

\* What the remote service does if it is asked: the outcome of a revocation, the
\* answer to an authentication exchange, the answer to a business call.
Remote(revoke, auth, resp) == [revoke |-> revoke, auth |-> auth, resp |-> resp]

LifecycleEvent(name, result) ==
    Event(IF result.kind # "raise" THEN name
          ELSE IF name = "shutdown" THEN "shutdown_failed" ELSE "initialize_failed")

\* refresh_token_if_needed() as one call: shutdown() then initialize() when the
\* clock is at or past the stored expiry, nothing otherwise.
refresh_token_if_needed(p, remote, time, tok) ==
    IF ~TokenExpired(p, time)
    THEN [provider |-> p, events |-> <<>>, result |-> Returns(NoneStr)]
    ELSE
      LET s == shutdown(p, remote.revoke) IN
      IF s.result.kind = "raise"
      THEN [provider |-> s.provider,
            events |-> s.events \o <<LifecycleEvent("shutdown", s.result)>>,
            result |-> s.result]
      ELSE
        LET i == initialize(s.provider, remote.auth, time, tok) IN
        [provider |-> i.provider,
         events |-> s.events \o <<LifecycleEvent("shutdown", s.result)>>
                      \o i.events \o <<LifecycleEvent("initialize", i.result)>>,
         result |-> i.result]

\* execute_tool(provider, tool_name, arguments) of a tool module as one call: the
\* refresh, then the routing on the tool name.  What the refresh raises leaves the
\* function.
execute_tool(module, p, tool_name, arguments, remote, time, tok) ==
    LET f == refresh_token_if_needed(p, remote, time, tok) IN
    IF f.result.kind = "raise" THEN f
    ELSE LET r == Route(module, f.provider, tool_name, arguments, remote.resp, time)
         IN [provider |-> f.provider, events |-> f.events \o r.events,
             result |-> Returns(r.envelope)]

Tool(name, descriptor, handler) ==
    [name |-> name, descriptor |-> descriptor, handler |-> handler]

\* register_tool() without the test for a name already present: the name is rebound
register_toolOverwrites(reg, tool) ==
    [tools |-> (tool.name :> tool) @@ reg, result |-> Returns(NoneStr)]

register_tool(reg, tool) ==
    IF tool.name \in DOMAIN reg
    THEN [tools |-> reg,
          result |-> Raises("ValueError", <<"Tool '", tool.name, "' is already registered">>)]
    ELSE [tools |-> reg @@ (tool.name :> tool), result |-> Returns(NoneStr)]

\* register_module(get_tools_func, execute_func): the loop over the declared tools,
\* from the i-th on; it stops at the first register_tool that raises.
RECURSIVE RegisterFrom(_, _, _, _, _)
RegisterFrom(reg, declared, i, descriptor, execute_func) ==
    IF i > Len(declared) THEN [tools |-> reg, result |-> Returns(NoneStr)]
    ELSE LET r == register_tool(reg, Tool(declared[i], descriptor, execute_func)) IN
         IF r.result.kind = "raise" THEN r
         ELSE RegisterFrom(r.tools, declared, i + 1, descriptor, execute_func)

\* register_module() registering all of the module's tools or none
register_moduleAtomic(reg, module) ==
    LET r == RegisterFrom(reg, get_tools(module), 1, module, module) IN
    IF r.result.kind = "raise" THEN [tools |-> reg, result |-> r.result] ELSE r

\* register_module() binding every tool to the hosts module's execute function
register_moduleHostsHandler(reg, module) ==
    RegisterFrom(reg, get_tools(module), 1, module, "hosts")

register_module(reg, module) == RegisterFrom(reg, get_tools(module), 1, module, module)

\* register_module() over Tool objects of which some are the very objects the
\* registry holds under their names (held), as when get_tools_func returns the
\* objects it returned before: the handler is assigned to the object, then
\* register_tool() looks its name up.
RECURSIVE RegisterObjects(_, _, _, _)
RegisterObjects(reg, objs, i, execute_func) ==
    IF i > Len(objs) THEN [tools |-> reg, result |-> Returns(NoneStr)]
    ELSE LET tool == [objs[i].tool EXCEPT !.handler = execute_func]
             assigned == IF objs[i].held THEN [reg EXCEPT ![tool.name] = tool] ELSE reg
             r == register_tool(assigned, tool)
         IN IF r.result.kind = "raise" THEN r
            ELSE RegisterObjects(r.tools, objs, i + 1, execute_func)

\* get_all_tools(): every tool in MCP format, which leaves the handler out
get_all_tools(reg) == {[name |-> n, descriptor |-> reg[n].descriptor] : n \in DOMAIN reg}

\* list_tool_names()
list_tool_names(reg) == DOMAIN reg

get_tool(reg, name) == IF name \in DOMAIN reg THEN reg[name] ELSE NoneRec

\* The envelope for a missing tool, without its status code
NotFoundNoStatus(name) ==
    error_response(<<"Tool '", name, "' not found">>, name, NoneInt, NoneRec)

NotFound(name) ==
    error_response(<<"Tool '", name, "' not found">>, name, 404, NoneRec)

\* ToolRegistry.execute_tool without its try/except: the handler's end is its own
RegistryNoBoundary(name, handled) == handled

\* ToolRegistry.execute_tool once the handler has ended: an envelope is passed on,
\* an exception becomes the 500 envelope.
RegistryBoundary(name, handled) ==
    IF handled.kind = "raise"
    THEN Returns(error_response(<<"Tool execution failed: ">> \o handled.msg,
                                name, 500, NoneRec))
    ELSE handled

----------------------------------------------------------------------------
(* The requests *)

UnknownName == "does_not_exist"

RECURSIVE Flatten(_)
Flatten(ss) == IF Len(ss) = 0 THEN <<>> ELSE Head(ss) \o Flatten(Tail(ss))

Range(f) == {f[i] : i \in DOMAIN f}

AllTools == Flatten([i \in 1..Len(Modules) |-> get_tools(Modules[i])])
ToolNames == Range(AllTools) \cup {UnknownName}

QueryArgs ==
    << EmptyDict,
       [limit |-> 10, filter |-> "platform_name:'Windows'"],
       [filter |-> NoneStr, limit |-> 100, offset |-> 0, sort |-> NoneStr],
       [filter |-> "", sort |-> "hostname.asc"] >>

IdsArgs(key) == << EmptyDict, (key :> <<>>), (key :> <<"id1">>) >>

DeviceArgs == << EmptyDict, [device_id |-> ""], [device_id |-> "d1"] >>

UpdateArgs ==
    << EmptyDict,
       [detection_ids |-> <<"x">>],
       [detection_ids |-> <<"x">>, status |-> "bogus"],
       [detection_ids |-> <<"x">>, status |-> "closed"],
       [detection_ids |-> <<"x", "y">>, status |-> "new", comment |-> "triaged"] >>

\* The arguments a caller may send with each tool name
ArgChoices(name) ==
    CASE name \in {"query_devices_by_filter", "query_detections", "query_incidents"}
           -> QueryArgs
      [] name = "get_device_details" -> IdsArgs("device_ids")
      [] name = "get_detection_details" -> IdsArgs("detection_ids")
      [] name = "get_incident_details" -> IdsArgs("incident_ids")
      [] name \in {"contain_host", "lift_containment"} -> DeviceArgs
      [] name = "update_detection_status" -> UpdateArgs
      [] OTHER -> << EmptyDict >>

NoOp == [kind |-> "none"]

\* A tool invocation or a health check as it was entered: with the provider READY
\* or not, and with the clock past the stored expiry or not
Entered(what) ==
    what @@ [ready |-> provider.initialized, expired |-> now >= provider.token_expiry]

\* A direct call of a lifecycle method as it was made: on which provider fields, and
\* after which lifecycle method
Direct(what) == what @@ [before |-> provider, prev |-> lastOp]

Init ==
    /\ provider = NewProvider
    /\ tools = EmptyDict
    /\ now = StartTime
    /\ issued = 0
    /\ running = 0
    /\ pc = [t \in Tasks |-> "idle"]
    /\ op = [t \in Tasks |-> NoOp]
    /\ trace = [t \in Tasks |-> <<>>]
    /\ inner = [t \in Tasks |-> NoResult]
    /\ ret = [t \in Tasks |-> NoResult]
    /\ lastOp = "none"
    /\ client = FALSE
    /\ mcp_server = FALSE

\* Task t is at position `at` and the event loop may run it
At(t, at) == pc[t] = at /\ running \in {0, t}

\* Task t goes on to position `to`, after awaiting `callee`
Goto(t, to, callee) ==
    /\ pc' = [pc EXCEPT ![t] = to]
    /\ running' = IF AwaitSuspends(callee) THEN 0 ELSE t

\* Task t ends with `result`; its caller has the result before anything else runs
Done(t, result) ==
    /\ pc' = [pc EXCEPT ![t] = "done"]
    /\ ret' = [ret EXCEPT ![t] = result]
    /\ running' = t

\* How an exception raised by the provider under op[t] leaves the operation:
\* through the module's execute_tool to the registry's boundary, into
\* health_check's except clause, or to the caller of initialize() / shutdown().
Propagated(t, exc) ==
    CASE op[t].kind = "execute_tool" ->
           /\ inner' = [inner EXCEPT ![t] = exc]
           /\ Done(t, RegistryBoundary(op[t].name, exc))
      [] op[t].kind = "health_check" ->
           /\ inner' = inner
           /\ Done(t, Returns(FALSE))
      [] OTHER ->
           /\ inner' = inner
           /\ Done(t, exc)

\* A request arrives: it becomes the lowest free task and waits for the event loop
Submit(t) ==
    /\ pc[t] = "idle"
    /\ \A u \in Tasks : u < t => pc[u] # "idle"
    /\ pc' = [pc EXCEPT ![t] = "pending"]
    /\ UNCHANGED <<client, mcp_server, provider, tools, now, issued, running, op, trace, inner, ret, lastOp>>

\* ToolRegistry.execute_tool(name, arguments), up to the test of
\* refresh_token_if_needed() in the module's execute_tool
BeginExecuteTool(t) ==
    /\ At(t, "pending")
    /\ \E name \in ToolNames :
         \E i \in 1..Len(ArgChoices(name)) :
           /\ op' = [op EXCEPT ![t] = Entered([kind |-> "execute_tool", name |-> name,
                                               arguments |-> ArgChoices(name)[i]])]
           /\ IF get_tool(tools, name) = NoneRec
              THEN Done(t, Returns(NotFound(name)))
              ELSE /\ Goto(t, IF TokenExpired(provider, now) THEN "shutdown" ELSE "route",
                           "refresh_token_if_needed")
                   /\ ret' = ret
    /\ UNCHANGED <<client, mcp_server, provider, tools, now, issued, trace, inner, lastOp>>

\* health_check(), up to its test of the expiry
BeginHealthCheck(t) ==
    /\ At(t, "pending")
    /\ op' = [op EXCEPT ![t] = Entered([kind |-> "health_check"])]
    /\ IF ~provider.initialized
       THEN Done(t, Returns(FALSE))
       ELSE /\ Goto(t, IF TokenExpired(provider, now) THEN "shutdown" ELSE "call",
                    "health_check")
            /\ ret' = ret
    /\ UNCHANGED <<client, mcp_server, provider, tools, now, issued, trace, inner, lastOp>>

\* A direct call of provider.initialize()
BeginInitialize(t) ==
    /\ At(t, "pending")
    /\ op' = [op EXCEPT ![t] = Direct([kind |-> "initialize"])]
    /\ Goto(t, "initialize", "initialize")
    /\ UNCHANGED <<client, mcp_server, provider, tools, now, issued, trace, inner, ret, lastOp>>

\* A direct call of provider.shutdown()
BeginShutdown(t) ==
    /\ At(t, "pending")
    /\ op' = [op EXCEPT ![t] = Direct([kind |-> "shutdown"])]
    /\ Goto(t, "shutdown", "shutdown")
    /\ UNCHANGED <<client, mcp_server, provider, tools, now, issued, trace, inner, ret, lastOp>>

\* shutdown() runs: called directly, or as the first half of a refresh
DoShutdown(t) ==
    /\ At(t, "shutdown")
    /\ \E revoke \in RevokeOutcomes :
         LET r == shutdown(provider, revoke) IN
         /\ provider' = r.provider
         /\ trace' = [trace EXCEPT ![t] = @ \o r.events \o
                         <<Event(IF r.result.kind = "raise" THEN "shutdown_failed"
                                 ELSE "shutdown")>>]
         /\ IF r.result.kind = "raise" THEN Propagated(t, r.result)
            ELSE IF op[t].kind = "shutdown"
            THEN inner' = inner /\ Done(t, r.result)
            ELSE inner' = inner /\ ret' = ret /\ Goto(t, "initialize", "shutdown")
    /\ lastOp' = "shutdown"
    /\ UNCHANGED <<client, mcp_server, tools, now, issued, op>>

\* initialize() runs: called directly, or as the second half of a refresh
DoInitialize(t) ==
    /\ At(t, "initialize")
    /\ \E auth \in AuthResponses :
         LET r == initialize(provider, auth, now, issued + 1)
             exchanged == \E i \in 1..Len(r.events) : r.events[i].ev = "auth"
             fresh == exchanged /\ ~auth.raises /\ auth.status_code = AuthCreated
                        /\ auth.access_token = "valid"
         IN
         /\ fresh => issued < MaxAuth
         /\ issued' = IF fresh THEN issued + 1 ELSE issued
         /\ provider' = r.provider
         /\ trace' = [trace EXCEPT ![t] = @ \o r.events \o
                         <<Event(IF r.result.kind = "raise" THEN "initialize_failed"
                                 ELSE "initialize")>>]
         /\ IF r.result.kind = "raise" THEN Propagated(t, r.result)
            ELSE IF op[t].kind = "initialize"
            THEN inner' = inner /\ Done(t, r.result)
            ELSE /\ inner' = inner /\ ret' = ret
                 /\ Goto(t, IF op[t].kind = "health_check" THEN "call" ELSE "route",
                         "initialize")
    /\ lastOp' = "initialize"
    /\ UNCHANGED <<client, mcp_server, tools, now, op>>

\* The module's execute_tool routes to the tool function, which validates, calls
\* the remote service and builds the envelope; the registry passes it on.
ToolCall(t) ==
    /\ At(t, "route")
    /\ \E i \in 1..Len(ApiResponses) :
         LET r == Route(tools[op[t].name].handler, provider, op[t].name,
                        op[t].arguments, ApiResponses[i], now)
             handled == Returns(r.envelope)
         IN
         /\ trace' = [trace EXCEPT ![t] = @ \o r.events]
         /\ inner' = [inner EXCEPT ![t] = handled]
         /\ Done(t, RegistryBoundary(op[t].name, handled))
    /\ UNCHANGED <<client, mcp_server, provider, tools, now, issued, op, lastOp>>

\* health_check() takes any 2xx status for a healthy connection
health_queryAny2xx(p, resp, time) ==
    IF p.hosts.present
    THEN [events |-> <<[ev |-> "health", api |-> "hosts.query_devices_by_filter",
                        params |-> [limit |-> 1], token |-> p.hosts.access_token,
                        time |-> time, expiry |-> p.token_expiry]>>,
          result |-> Returns(~resp.raises /\ resp.status_code \in {200, 202})]
    ELSE [events |-> <<>>, result |-> Returns(FALSE)]

\* The end of health_check(): one query through self._hosts, if there is one; True
\* for status 200, False for any other status and for an exception.
health_query(p, resp, time) ==
    IF p.hosts.present
    THEN [events |-> <<[ev |-> "health", api |-> "hosts.query_devices_by_filter",
                        params |-> [limit |-> 1], token |-> p.hosts.access_token,
                        time |-> time, expiry |-> p.token_expiry]>>,
          result |-> Returns(~resp.raises /\ resp.status_code = 200)]
    ELSE [events |-> <<>>, result |-> Returns(FALSE)]

\* health_check() after its refresh
HealthCall(t) ==
    /\ At(t, "call")
    /\ \E i \in 1..Len(ApiResponses) :
         LET r == health_query(provider, ApiResponses[i], now) IN
         /\ trace' = [trace EXCEPT ![t] = @ \o r.events]
         /\ Done(t, r.result)
    /\ UNCHANGED <<client, mcp_server, provider, tools, now, issued, op, inner, lastOp>>

\* A direct call of provider.get_client()
GetClient(t) ==
    /\ At(t, "pending")
    /\ op' = [op EXCEPT ![t] = [kind |-> "get_client"]]
    /\ Done(t, get_client(provider))
    /\ UNCHANGED <<client, mcp_server, provider, tools, now, issued, trace, inner, lastOp>>

\* f without its entry t: the later tasks move down one place, the last is empty
Without(f, t, empty) ==
    [u \in Tasks |-> IF u < t THEN f[u] ELSE IF u < NumTasks THEN f[u + 1] ELSE empty]

\* The caller has the result and the task ends; the tasks are numbered in the order
\* of arrival, so those that arrived after it move down
Finish(t) ==
    /\ At(t, "done")
    /\ pc' = Without(pc, t, "idle")
    /\ running' = 0
    /\ op' = Without(op, t, NoOp)
    /\ trace' = Without(trace, t, <<>>)
    /\ inner' = Without(inner, t, NoResult)
    /\ ret' = Without(ret, t, NoResult)
    /\ UNCHANGED <<client, mcp_server, provider, tools, now, issued, lastOp>>

\* MCPServer.initialize registers the modules one after the other: register_module()
\* for module i runs once those before it are registered; running it again finds
\* the names taken.
RegisterModule(i) ==
    /\ running = 0
    /\ \A j \in 1..(i - 1) : Range(get_tools(Modules[j])) \subseteq DOMAIN tools
    /\ tools' = register_module(tools, Modules[i]).tools
    /\ UNCHANGED <<client, mcp_server, provider, now, issued, running, pc, op, trace, inner, ret, lastOp>>

\* Time passes between two handlers
Tick ==
    /\ running = 0
    /\ now < StartTime + MaxTicks * TickStep
    /\ now' = now + TickStep
    /\ UNCHANGED <<client, mcp_server, provider, tools, issued, running, pc, op, trace, inner, ret, lastOp>>

Next ==
    \/ \E t \in Tasks : Submit(t)
    \/ \E t \in Tasks : BeginExecuteTool(t)
    \/ \E t \in Tasks : BeginHealthCheck(t)
    \/ \E t \in Tasks : BeginInitialize(t)
    \/ \E t \in Tasks : BeginShutdown(t)
    \/ \E t \in Tasks : DoShutdown(t)
    \/ \E t \in Tasks : DoInitialize(t)
    \/ \E t \in Tasks : ToolCall(t)
    \/ \E t \in Tasks : HealthCall(t)
    \/ \E t \in Tasks : GetClient(t)
    \/ \E t \in Tasks : Finish(t)
    \/ \E i \in 1..Len(Modules) : RegisterModule(i)
    \/ Tick

Spec == Init /\ [][Next]_vars

----------------------------------------------------------------------------
(* The registry alone: the start-up code registers single tools and whole     *)
(* modules, in any order.  op[1] is the last registration call, with the      *)
(* registry as it was when the call was made, and ret[1] is how it ended.     *)

\* A tool module other than the three of the package, declaring names of its own
\* choice; here it declares the names the hosts module declares.
CustomModule == "custom"

\* The tools that register_tool() may be given
CandidateTools ==
    {Tool(get_tools("hosts")[i], m, m) : i \in 1..Len(get_tools("hosts")),
                                         m \in {"hosts", CustomModule}}

RegisterToolCall(tool) ==
    LET r == register_tool(tools, tool) IN
    /\ tools' = r.tools
    /\ op' = [op EXCEPT ![1] = [kind |-> "register_tool", tool |-> tool, before |-> tools]]
    /\ ret' = [ret EXCEPT ![1] = r.result]
    /\ UNCHANGED <<client, mcp_server, provider, now, issued, running, pc, trace, inner, lastOp>>

RegisterModuleCall(m) ==
    LET r == register_module(tools, m) IN
    /\ tools' = r.tools
    /\ op' = [op EXCEPT ![1] = [kind |-> "register_module", module |-> m, before |-> tools]]
    /\ ret' = [ret EXCEPT ![1] = r.result]
    /\ UNCHANGED <<client, mcp_server, provider, now, issued, running, pc, trace, inner, lastOp>>

NextRegistry ==
    \/ \E tool \in CandidateTools : RegisterToolCall(tool)
    \/ \E i \in 1..Len(Modules) : RegisterModuleCall(Modules[i])

SpecRegistry == Init /\ [][NextRegistry]_vars

----------------------------------------------------------------------------
(* sdk.py: one CrowdStrikeClient over a provider of its own.  The caller makes    *)
(* one call after the other; trace[1] is the log of the provider-level and remote *)
(* calls the client has caused since it was created, op[1] is the last call of    *)
(* the caller, with the client's flag and the length of the log as they were      *)
(* when it was made, and ret[1] is how that call ended.                           *)

MaxHistory == 8

\* Each API method's keyword arguments, as a caller may give them
ClientKwargs(method) ==
    CASE method \in {"query_devices_by_filter", "query_detections", "query_incidents"} ->
           << [filter |-> NoneStr, limit |-> DefaultLimit, offset |-> DefaultOffset,
               sort |-> NoneStr],
              [filter |-> "platform_name:'Windows'", limit |-> 10, offset |-> DefaultOffset,
               sort |-> "hostname.asc"] >>
      [] method = "get_device_details" -> << [device_ids |-> <<"id1">>] >>
      [] method = "get_detection_details" -> << [detection_ids |-> <<>>] >>
      [] method = "get_incident_details" -> << [incident_ids |-> <<"id1">>] >>
      [] method = "contain_host" -> << [device_id |-> "d1"] >>
      [] method = "lift_containment" -> << [device_id |-> ""] >>
      [] method = "update_detection_status" ->
           << [detection_ids |-> <<"x">>, status |-> "closed", comment |-> NoneStr],
              [detection_ids |-> <<"x">>, status |-> "bogus", comment |-> "triaged"] >>

\* The arguments dict an API method builds from its keyword arguments
ClientArguments(method, kw) ==
    IF method = "update_detection_status"
    THEN [detection_ids |-> kw.detection_ids, status |-> kw.status]
             @@ DictIf(TruthyStr(kw.comment), "comment", kw.comment)
    ELSE kw

\* _ensure_initialized() that never raises
ensure_initializedNever(c) == Returns(NoneStr)

\* _ensure_initialized()
ensure_initialized(c) ==
    IF ~c
    THEN Raises("RuntimeError",
                <<"Client ", "not initialized",
                  ". Use 'async with' or call initialize() first.">>)
    ELSE Returns(NoneStr)

\* CrowdStrikeClient.initialize() without the test of its flag
client_initializeUnguarded(c, p, remote, time, tok) ==
    LET i == initialize(p, remote.auth, time, tok) IN
    [client |-> IF i.result.kind = "raise" THEN c ELSE TRUE, provider |-> i.provider,
     events |-> i.events \o <<LifecycleEvent("initialize", i.result)>>,
     result |-> i.result]

\* CrowdStrikeClient.initialize(): the flag is set once provider.initialize() returned
client_initialize(c, p, remote, time, tok) ==
    IF c
    THEN [client |-> c, provider |-> p, events |-> <<>>, result |-> Returns(NoneStr)]
    ELSE LET i == initialize(p, remote.auth, time, tok) IN
         [client |-> IF i.result.kind = "raise" THEN c ELSE TRUE, provider |-> i.provider,
          events |-> i.events \o <<LifecycleEvent("initialize", i.result)>>,
          result |-> i.result]

\* CrowdStrikeClient.close(): the flag is reset once provider.shutdown() returned
client_close(c, p, remote) ==
    IF ~c
    THEN [client |-> c, provider |-> p, events |-> <<>>, result |-> Returns(NoneStr)]
    ELSE LET s == shutdown(p, remote.revoke) IN
         [client |-> IF s.result.kind = "raise" THEN c ELSE FALSE, provider |-> s.provider,
          events |-> s.events \o <<LifecycleEvent("shutdown", s.result)>>,
          result |-> s.result]

\* An API method: _ensure_initialized(), then the execute_tool of the method's module
client_call(c, p, method, kw, remote, time, tok) ==
    LET e == ensure_initialized(c) IN
    IF e.kind = "raise"
    THEN [client |-> c, provider |-> p, events |-> <<>>, result |-> e]
    ELSE LET r == execute_tool(CHOOSE m \in Range(Modules) : method \in Range(get_tools(m)),
                               p, method, ClientArguments(method, kw), remote, time, tok)
         IN [client |-> c] @@ r

\* The remote service as the calls of the SDK client and of the HTTP server meet it
Remotes ==
    { Remote(revoke, auth, ApiResponses[i]) :
        revoke \in {"ok", "throws"},
        auth \in {a \in AuthResponses :
                    /\ ~a.raises /\ a.access_token # "empty"
                    /\ (a.access_token = "absent" /\ a.status_code = AuthCreated)
                          => a.expires_in = NoneInt},
        i \in {1, 2, 5} }

\* Whether the calls in `events` obtained a fresh token from the answer `auth`
Fresh(events, auth) ==
    /\ \E i \in 1..Len(events) : events[i].ev = "auth"
    /\ ~auth.raises /\ auth.status_code = AuthCreated /\ auth.access_token = "valid"

\* The log keeps which calls were made, in order
Logged(events) ==
    LET calls == SelectSeq(events, LAMBDA e : e.ev # "log")
    IN [i \in 1..Len(calls) |-> Event(calls[i].ev)]

\* The caller has made the call `what` and it ended as r says
ClientStep(what, r, remote) ==
    /\ Len(trace[1]) + Len(Logged(r.events)) <= MaxHistory
    /\ Fresh(r.events, remote.auth) => issued < MaxAuth
    /\ issued' = IF Fresh(r.events, remote.auth) THEN issued + 1 ELSE issued
    /\ client' = r.client
    /\ provider' = r.provider
    /\ trace' = [trace EXCEPT ![1] = @ \o Logged(r.events)]
    /\ op' = [op EXCEPT ![1] = what @@ [before |-> client, seen |-> Len(trace[1])]]
    /\ ret' = [ret EXCEPT ![1] = r.result]
    /\ UNCHANGED <<mcp_server, tools, now, running, pc, inner, lastOp>>

ClientInitialize ==
    \E remote \in Remotes :
        \E r \in {client_initialize(client, provider, remote, now, issued + 1)} :
            ClientStep([kind |-> "client.initialize"], r, remote)

ClientClose ==
    \E remote \in Remotes :
        \E r \in {client_close(client, provider, remote)} :
            ClientStep([kind |-> "client.close"], r, remote)

ClientCall ==
    \E method \in Range(AllTools) : \E k \in 1..Len(ClientKwargs(method)) :
        \E remote \in Remotes :
            \E r \in {client_call(client, provider, method, ClientKwargs(method)[k],
                                  remote, now, issued + 1)} :
                ClientStep([kind |-> "client.call", method |-> method,
                            kw |-> ClientKwargs(method)[k]], r, remote)

\* The client used for a while: any sequence of initialize(), close() and API calls
NextClient ==
    \/ ClientInitialize
    \/ ClientClose
    \/ ClientCall
    \/ Tick

SpecClient == Init /\ [][NextClient]_vars

\* The client opened and closed only: any sequence of initialize() and close()
NextClientLifecycle ==
    \/ ClientInitialize
    \/ ClientClose
    \/ Tick

SpecClientLifecycle == Init /\ [][NextClientLifecycle]_vars

----------------------------------------------------------------------------
(* main.py and server.py: the HTTP endpoints.  Each request is handled in one    *)
(* piece; op[1] is the last request, inner[1] is how the call the endpoint made   *)
(* (ToolRegistry.execute_tool or health_check) ended, ret[1] is the HTTP answer   *)
(* and trace[1] the provider-level and remote calls of that request.              *)

DenyList == {"password", "secret", "token"}

\* The logged arguments with nothing left out
SanitizedNothing(arguments) == arguments

\* {k: v for k, v in arguments.items() if k not in ["password", "secret", "token"]}
Sanitized(arguments) == [k \in DOMAIN arguments \ DenyList |-> arguments[k]]

\* tool.handler(name, arguments): the handler is entered with these arguments
HandlerCall(name, arguments) == [ev |-> "handler", name |-> name, arguments |-> arguments]

\* ToolRegistry.execute_tool(name, arguments) as one call; `arguments` of the result
\* is the caller's mapping as the call leaves it
registry_execute_tool(reg, p, name, arguments, remote, time, tok) ==
    LET tool == get_tool(reg, name) IN
    IF tool = NoneRec
    THEN [provider |-> p, events |-> <<Log("warning", "Tool not found")>>,
          result |-> Returns(NotFound(name)), arguments |-> arguments]
    ELSE LET h == execute_tool(tool.handler, p, name, arguments, remote, time, tok)
         IN [provider |-> h.provider,
             events |-> <<Log("info", "Executing tool")
                              @@ [arguments |-> Sanitized(arguments)],
                          HandlerCall(name, arguments)>>
                        \o h.events
                        \o <<IF h.result.kind = "raise"
                              THEN Log("error", "Tool execution failed")
                              ELSE Log("info", "Tool execution completed")>>,
             result |-> RegistryBoundary(name, h.result),
             arguments |-> arguments]

\* health_check() without the test of _initialized
health_checkUnguarded(p, remote, time, tok) ==
    LET f == refresh_token_if_needed(p, remote, time, tok) IN
    IF f.result.kind = "raise"
    THEN [provider |-> f.provider, events |-> f.events, result |-> Returns(FALSE)]
    ELSE LET q == health_query(f.provider, remote.resp, time)
         IN [provider |-> f.provider, events |-> f.events \o q.events,
             result |-> q.result]

\* health_check() as one call
health_check(p, remote, time, tok) ==
    IF ~p.initialized
    THEN [provider |-> p, events |-> <<>>, result |-> Returns(FALSE)]
    ELSE LET f == refresh_token_if_needed(p, remote, time, tok) IN
         IF f.result.kind = "raise"
         THEN [provider |-> f.provider, events |-> f.events, result |-> Returns(FALSE)]
         ELSE LET q == health_query(f.provider, remote.resp, time)
              IN [provider |-> f.provider, events |-> f.events \o q.events,
                  result |-> q.result]

\* create_server(): a new MCPServer with a provider of its own is initialized: its
\* provider first, then a new registry gets the three modules; what
\* provider.initialize() raises leaves the function.
server_initialize(remote, time, tok) ==
    LET i == initialize(NewProvider, remote.auth, time, tok)
        h == register_module(EmptyDict, "hosts")
        d == register_module(h.tools, "detections")
        n == register_module(d.tools, "incidents")
    IN [provider |-> i.provider,
        events |-> i.events \o <<LifecycleEvent("initialize", i.result)>>,
        result |-> i.result,
        tools |-> IF i.result.kind = "raise" THEN EmptyDict ELSE n.tools]

HttpAnswer(status, body) == [status |-> status, body |-> body]
HTTPException(status_code, detail) == HttpAnswer(status_code, [detail |-> detail])

\* The answer of the execute endpoint takes its status from the envelope
RelayByStatus(outcome) ==
    IF outcome.kind = "raise"
    THEN HTTPException(500, <<"Tool execution failed: ">> \o outcome.msg)
    ELSE HttpAnswer(IF "status_code" \in DOMAIN outcome.value
                    THEN outcome.value.status_code ELSE 200,
                    outcome.value)

\* The try of the execute endpoint: the result is returned, which FastAPI answers
\* with status 200 and the result as the body; an exception becomes a 500.
Relay(outcome) ==
    IF outcome.kind = "raise"
    THEN HTTPException(500, <<"Tool execution failed: ">> \o outcome.msg)
    ELSE HttpAnswer(200, outcome.value)

\* The readiness endpoint reporting a healthy provider whatever health_check() said
ReadyResponseHealthy(outcome) ==
    HttpAnswer(200, [ready |-> outcome.kind # "raise", provider_healthy |-> TRUE])

\* The try of the readiness endpoint
ReadyResponse(outcome) ==
    IF outcome.kind = "raise"
    THEN HttpAnswer(200, [ready |-> FALSE, provider_healthy |-> FALSE])
    ELSE HttpAnswer(200, [ready |-> TRUE, provider_healthy |-> outcome.value])

\* POST /mcp/v1/tools/{tool_name}
execute_tool_endpoint(server, reg, p, tool_name, arguments, remote, time, tok) ==
    IF ~server
    THEN [provider |-> p, events |-> <<>>, result |-> NoResult,
          answer |-> HTTPException(503, <<"Server not initialized">>)]
    ELSE LET r == registry_execute_tool(reg, p, tool_name, arguments, remote, time, tok)
         IN r @@ [answer |-> Relay(r.result)]

\* GET /ready
readiness_check(server, p, remote, time, tok) ==
    IF ~server
    THEN [provider |-> p, events |-> <<>>, result |-> NoResult,
          answer |-> HttpAnswer(200, [ready |-> FALSE, provider_healthy |-> FALSE])]
    ELSE LET r == health_check(p, remote, time, tok)
         IN r @@ [answer |-> ReadyResponse(r.result)]

\* GET /health
health_endpoint == HttpAnswer(200, [status |-> "healthy"])

\* The requests to the execute endpoint
HttpRequests ==
    << [name |-> "query_devices_by_filter", arguments |-> QueryArgs[2]],
       [name |-> "contain_host", arguments |-> DeviceArgs[2]],
       [name |-> "get_incident_details", arguments |-> IdsArgs("incident_ids")[3]],
       [name |-> "update_detection_status", arguments |-> UpdateArgs[3]],
       [name |-> UnknownName, arguments |-> EmptyDict] >>

\* The request `what` was handled as r says
HttpStep(what, r, remote) ==
    /\ Fresh(r.events, remote.auth) => issued < MaxAuth
    /\ issued' = IF Fresh(r.events, remote.auth) THEN issued + 1 ELSE issued
    /\ provider' = r.provider
    /\ trace' = [trace EXCEPT ![1] = r.events]
    /\ op' = [op EXCEPT ![1] = what @@ [server |-> mcp_server, before |-> provider,
                                         time |-> now]]
    /\ inner' = [inner EXCEPT ![1] = r.result]
    /\ ret' = [ret EXCEPT ![1] = Returns(r.answer)]

\* The lifespan's start: create_server(), and the server is kept if it returned
StartServer ==
    /\ ~mcp_server
    /\ \E remote \in Remotes :
         \E r \in {server_initialize(remote, now, issued + 1)} :
         /\ HttpStep([kind |-> "startup"], r @@ [answer |-> NoneRec], remote)
         /\ tools' = r.tools
         /\ mcp_server' = (r.result.kind # "raise")
    /\ UNCHANGED <<client, now, running, pc, lastOp>>

\* The lifespan's end: MCPServer.shutdown(); _mcp_server keeps the server
StopServer ==
    /\ mcp_server
    /\ \E remote \in Remotes :
         \E r \in {shutdown(provider, remote.revoke)} :
             HttpStep([kind |-> "shutdown"], r @@ [answer |-> NoneRec], remote)
    /\ UNCHANGED <<client, mcp_server, tools, now, running, pc, lastOp>>

ExecuteEndpoint ==
    /\ \E i \in 1..Len(HttpRequests) : \E remote \in Remotes :
         \E r \in {execute_tool_endpoint(mcp_server, tools, provider,
                                          HttpRequests[i].name, HttpRequests[i].arguments,
                                          remote, now, issued + 1)} :
             HttpStep([kind |-> "execute"] @@ HttpRequests[i], r, remote)
    /\ UNCHANGED <<client, mcp_server, tools, now, running, pc, lastOp>>

ReadyEndpoint ==
    /\ \E remote \in Remotes :
         \E r \in {readiness_check(mcp_server, provider, remote, now, issued + 1)} :
             HttpStep([kind |-> "ready"], r, remote)
    /\ UNCHANGED <<client, mcp_server, tools, now, running, pc, lastOp>>

HealthEndpoint ==
    /\ \E remote \in Remotes :
         HttpStep([kind |-> "health"],
                  [provider |-> provider, events |-> <<>>, result |-> NoResult,
                   answer |-> health_endpoint], remote)
    /\ UNCHANGED <<client, mcp_server, tools, now, running, pc, lastOp>>

NextHttp ==
    \/ StartServer
    \/ StopServer
    \/ ExecuteEndpoint
    \/ ReadyEndpoint
    \/ HealthEndpoint
    \/ Tick

SpecHttp == Init /\ [][NextHttp]_vars

----------------------------------------------------------------------------
(* The tool modules called directly, as the SDK client and the tests call them:   *)
(* execute_tool(provider, tool_name, arguments) of any module with any name.      *)
(* op[1] is the last call, trace[1] the provider-level and remote calls it made,  *)
(* ret[1] how it ended.                                                           *)

DispatchRequests ==
    << [module |-> "hosts", name |-> "contain_host", arguments |-> DeviceArgs[2]],
       [module |-> "hosts", name |-> "contain_host", arguments |-> DeviceArgs[3]],
       [module |-> "hosts", name |-> "query_incidents", arguments |-> EmptyDict],
       [module |-> "detections", name |-> "update_detection_status",
        arguments |-> UpdateArgs[3]],
       [module |-> "detections", name |-> UnknownName, arguments |-> EmptyDict],
       [module |-> "incidents", name |-> "get_incident_details",
        arguments |-> IdsArgs("incident_ids")[2]],
       [module |-> "incidents", name |-> "query_incidents", arguments |-> QueryArgs[4]],
       [module |-> "incidents", name |-> "contain_host", arguments |-> DeviceArgs[3]] >>

Dispatch ==
    /\ \E i \in 1..Len(DispatchRequests) : \E remote \in Remotes :
         \E q \in {DispatchRequests[i]} :
         \E r \in {execute_tool(q.module, provider, q.name, q.arguments, remote, now,
                                issued + 1)} :
            /\ Fresh(r.events, remote.auth) => issued < MaxAuth
            /\ issued' = IF Fresh(r.events, remote.auth) THEN issued + 1 ELSE issued
            /\ provider' = r.provider
            /\ op' = [op EXCEPT ![1] = Entered([kind |-> "dispatch", before |-> provider]
                                                @@ q)]
            /\ trace' = [trace EXCEPT ![1] = r.events]
            /\ ret' = [ret EXCEPT ![1] = r.result]
    /\ UNCHANGED <<client, mcp_server, tools, now, running, pc, inner, lastOp>>

NextDispatch ==
    \/ Dispatch
    \/ Tick

SpecDispatch == Init /\ [][NextDispatch]_vars

----------------------------------------------------------------------------
(* The registry in use: modules are registered, out of new Tool objects or out of *)
(* the objects an earlier call was given, and the registry is read and asked to   *)
(* execute.  op[1] is the last call, with the registry as it was when the call    *)
(* was made, and ret[1] is how it ended.                                          *)

\* The Tool objects a get_tools function returns again after module x was registered
\* out of them: the objects the registry holds under the names x declares
HeldObjects(reg, x) ==
    [i \in 1..Len(get_tools(x)) |-> [tool |-> reg[get_tools(x)[i]], held |-> TRUE]]

\* The requests to execute_tool
RegistryRequests ==
    << [name |-> "query_devices_by_filter", arguments |-> QueryArgs[2]],
       [name |-> "query_devices_by_filter",
        arguments |-> [filter |-> "platform_name:'Windows'", token |-> "t0",
                       password |-> "pw", secret |-> "s"]],
       [name |-> "query_incidents", arguments |-> QueryArgs[2]],
       [name |-> UnknownName, arguments |-> EmptyDict] >>

\* The remote service as the calls of the registry's tools meet it
RegistryRemotes ==
    {r \in Remotes : r.revoke = "ok" /\ Fresh(<<Event("auth")>>, r.auth)
                                     /\ r.auth.expires_in # NoneInt}

\* A call that only concerns the registry was made and ended as `result` says
RegistryStep(what, reg, result) ==
    /\ tools' = reg
    /\ op' = [op EXCEPT ![1] = what @@ [before |-> tools]]
    /\ ret' = [ret EXCEPT ![1] = result]
    /\ UNCHANGED <<client, mcp_server, provider, now, issued, running, pc, trace, inner,
                   lastOp>>

RegisterNewObjectsCall(m) ==
    LET r == register_module(tools, m) IN
    RegistryStep([kind |-> "register_module", module |-> m, held |-> FALSE],
                 r.tools, r.result)

RegisterHeldObjectsCall(x, m) ==
    /\ \A i \in 1..Len(get_tools(x)) : get_tools(x)[i] \in DOMAIN tools
    /\ LET r == RegisterObjects(tools, HeldObjects(tools, x), 1, m) IN
       RegistryStep([kind |-> "register_module", module |-> m, held |-> TRUE,
                     objects |-> x],
                    r.tools, r.result)

GetAllToolsCall ==
    RegistryStep([kind |-> "get_all_tools"], tools, Returns(get_all_tools(tools)))

ListToolNamesCall ==
    RegistryStep([kind |-> "list_tool_names"], tools, Returns(list_tool_names(tools)))

GetToolCall(name) ==
    RegistryStep([kind |-> "get_tool", name |-> name], tools,
                 Returns(get_tool(tools, name)))

ExecuteToolCall ==
    /\ \E i \in 1..Len(RegistryRequests) : \E remote \in RegistryRemotes :
         \E q \in {RegistryRequests[i]} :
         \E r \in {registry_execute_tool(tools, provider, q.name, q.arguments, remote, now,
                                         issued + 1)} :
            /\ Fresh(r.events, remote.auth) => issued < MaxAuth
            /\ issued' = IF Fresh(r.events, remote.auth) THEN issued + 1 ELSE issued
            /\ provider' = r.provider
            /\ op' = [op EXCEPT ![1] = [kind |-> "execute_tool", before |-> tools,
                                         after |-> r.arguments] @@ q]
            /\ trace' = [trace EXCEPT ![1] = r.events]
            /\ ret' = [ret EXCEPT ![1] = r.result]
    /\ UNCHANGED <<client, mcp_server, tools, now, running, pc, inner, lastOp>>

NextRegistryUse ==
    \/ \E i \in 1..Len(Modules) : RegisterNewObjectsCall(Modules[i])
    \/ \E i, j \in 1..Len(Modules) : RegisterHeldObjectsCall(Modules[i], Modules[j])
    \/ GetAllToolsCall
    \/ ListToolNamesCall
    \/ \E name \in {"contain_host", "query_incidents", UnknownName} : GetToolCall(name)
    \/ ExecuteToolCall

SpecRegistryUse == Init /\ [][NextRegistryUse]_vars

----------------------------------------------------------------------------
(* What the traces say *)

Last(s) == s[Len(s)]

Kinds(s) == [i \in 1..Len(s) |-> s[i].ev]

IsPrefix(s, full) == Len(s) <= Len(full) /\ \A i \in 1..Len(s) : s[i] = full[i]

\* The lifecycle methods and business calls of task t's operation, in order
Lifecycle(t) ==
    Kinds(SelectSeq(trace[t],
                    LAMBDA e : e.ev \in {"shutdown", "shutdown_failed", "initialize",
                                         "initialize_failed", "business"}))

Has(t, kind) == \E i \in 1..Len(trace[t]) : trace[t][i].ev = kind

TornDown(p) ==
    /\ ~p.initialized
    /\ p.oauth2 = NoClient
    /\ p.hosts = NoHandle /\ p.detects = NoHandle /\ p.incidents = NoHandle

\* Task t has invoked a registered tool through the registry
InvokesTool(t) == op[t].kind = "execute_tool" /\ op[t].name \in DOMAIN tools

----------------------------------------------------------------------------
(* Token freshness and the refresh cycle *)

\* C1: no business remote call is issued at a time at or past the provider's stored
\* token expiry (every dispatch path has run refresh_token_if_needed before it).
C1_BusinessCallsAreFresh ==
    \A t \in Tasks : \A i \in 1..Len(trace[t]) :
        trace[t][i].ev = "business" => trace[t][i].time < trace[t][i].expiry

\* C2: a tool invoked on a READY provider whose expiry has passed performs exactly
\* one shutdown, then exactly one initialize, both before its business call; a tool
\* invoked before the expiry performs neither.
C2_OneCycleBeforeBusinessCall ==
    \A t \in Tasks : InvokesTool(t) =>
        /\ (op[t].ready /\ op[t].expired) =>
              /\ \/ IsPrefix(Lifecycle(t), <<"shutdown", "initialize", "business">>)
                 \/ Lifecycle(t) = <<"shutdown", "initialize_failed">>
              /\ pc[t] = "done" => Len(Lifecycle(t)) >= 2
        /\ ~op[t].expired => IsPrefix(Lifecycle(t), <<"business">>)

C2_Witness ==
    \E t \in Tasks :
        /\ InvokesTool(t) /\ op[t].ready /\ op[t].expired
        /\ Lifecycle(t) = <<"shutdown", "initialize", "business">>

----------------------------------------------------------------------------
(* initialize() and shutdown() *)

\* C3: when the authentication exchange is rejected or its response carries no token,
\* initialize() fails and leaves the provider not initialized, with no OAuth client,
\* no handle, and the token expiry it had before.
C3_FailedInitializeLeavesNothing ==
    \A t \in Tasks :
        ( /\ op[t].kind = "initialize" /\ pc[t] = "done" /\ ret[t].kind = "raise"
          /\ ret[t].msg[2] \in {"Authentication failed: ", "'access_token'"} )
        => /\ TornDown(provider)
           /\ provider.token_expiry = op[t].before.token_expiry

\* C4: initialize() on a READY provider issues no authentication exchange and leaves
\* the expiry, the OAuth client and the three handles as they were.
C4_InitializeOnReadyIsNoOp ==
    \A t \in Tasks :
        (op[t].kind = "initialize" /\ pc[t] = "done" /\ op[t].before.initialized)
        => /\ ret[t] = Returns(NoneStr)
           /\ ~Has(t, "auth")
           /\ provider = op[t].before

C4_Witness ==
    \E t \in Tasks :
        /\ op[t].kind = "initialize" /\ pc[t] = "done" /\ op[t].before.initialized
        /\ op[t].before.oauth2.present

\* C5: a shutdown() made right after a shutdown() raises nothing, issues no token
\* revocation, and leaves the provider as the first did: not initialized, without
\* OAuth client or handles.
C5_ShutdownIsIdempotent ==
    \A t \in Tasks :
        (op[t].kind = "shutdown" /\ pc[t] = "done" /\ op[t].prev = "shutdown")
        => /\ ret[t] = Returns(NoneStr)
           /\ ~Has(t, "revoke")
           /\ TornDown(op[t].before)
           /\ provider = op[t].before

C5_Witness ==
    \E t \in Tasks :
        /\ op[t].kind = "shutdown" /\ pc[t] = "done" /\ op[t].prev = "shutdown"
        /\ provider.token_expiry > 0

\* C6: shutdown() never raises, and whatever the revocation did (succeeded, answered
\* an error, threw) the OAuth client, the three handles and the initialized flag
\* are cleared when it ends.
C6_ShutdownAlwaysTearsDown ==
    \A t \in Tasks :
        /\ ~Has(t, "shutdown_failed")
        /\ (Len(trace[t]) > 0 /\ Last(trace[t]).ev = "shutdown")
           => /\ TornDown(provider)
              /\ op[t].kind = "shutdown" => ret[t] = Returns(NoneStr)

C6_Witness ==
    \E t \in Tasks :
        /\ Len(trace[t]) >= 2
        /\ Last(trace[t]).ev = "shutdown"
        /\ trace[t][Len(trace[t]) - 1] = Revoke("throws")
        /\ TornDown(provider)

\* C7: a task that is between the start of a shutdown()/initialize() cycle and its
\* end keeps the event loop, so no other invocation or health check takes a step
\* inside the cycle and at most one cycle is in flight.
C7_OneCycleInFlight ==
    /\ \A t \in Tasks : pc[t] \in {"shutdown", "initialize"} => running = t
    /\ Cardinality({t \in Tasks : pc[t] \in {"shutdown", "initialize"}}) <= 1

C7_Witness ==
    \E t, u \in Tasks :
        /\ t # u
        /\ op[t].kind = "execute_tool" /\ op[t].expired /\ pc[t] = "initialize"
        /\ pc[u] = "pending"

----------------------------------------------------------------------------
(* The failure boundaries *)

\* C8: a tool module's execute_tool never raises; what it returns when something
\* failed is a success=false envelope naming the tool.
C8_DispatchNeverRaises ==
    \A t \in Tasks :
        (op[t].kind = "execute_tool" /\ inner[t].kind # "none")
        => /\ inner[t].kind = "return"
           /\ ~inner[t].value.success =>
                 ("tool" \in DOMAIN inner[t].value /\ inner[t].value.tool = op[t].name)

\* C9: ToolRegistry.execute_tool for a registered name never raises; an exception of
\* the handler becomes the envelope success=false, 'Tool execution failed: <message>',
\* status_code 500, and an envelope the handler returns is returned as it is.
C9_RegistryBoundary ==
    \A t \in Tasks : (InvokesTool(t) /\ pc[t] = "done") =>
        /\ ret[t].kind = "return"
        /\ inner[t].kind = "raise" =>
              ret[t].value = [success |-> FALSE,
                              error |-> <<"Tool execution failed: ">> \o inner[t].msg,
                              tool |-> op[t].name, status_code |-> 500]
        /\ inner[t].kind = "return" => ret[t].value = inner[t].value

C9_Witness ==
    \E t \in Tasks :
        /\ InvokesTool(t) /\ pc[t] = "done"
        /\ inner[t].kind = "raise"
        /\ ret[t].kind = "return" /\ ret[t].value.status_code = 500

----------------------------------------------------------------------------
(* The registry *)

\* C11: register_tool() for a name already in the registry raises ValueError and
\* leaves the registry as it was: the same names, each bound to the tool it was
\* bound to, the contested name to the first tool's descriptor and handler.
C11_DuplicateRegistrationRejected ==
    (op[1].kind = "register_tool" /\ op[1].tool.name \in DOMAIN op[1].before)
    => /\ ret[1].kind = "raise" /\ ret[1].exc = "ValueError"
       /\ DOMAIN tools = DOMAIN op[1].before
       /\ tools = op[1].before

C11_Witness ==
    /\ op[1].kind = "register_tool"
    /\ op[1].tool.name \in DOMAIN op[1].before
    /\ op[1].tool # op[1].before[op[1].tool.name]
    /\ tools[op[1].tool.name].handler # op[1].tool.handler

----------------------------------------------------------------------------
(* The envelopes and the validation of arguments *)

\* Task t's tool function has run and returned its envelope
ToolRan(t) == InvokesTool(t) /\ pc[t] = "done" /\ inner[t].kind = "return"

BusinessCalls(t) == SelectSeq(trace[t], LAMBDA e : e.ev = "business")

Total(env) ==
    /\ "success" \in DOMAIN env
    /\ ("data" \in DOMAIN env) <=> env.success
    /\ ("error" \in DOMAIN env) <=> ~env.success

\* C12: every envelope a tool invocation returns, from a tool function or from the
\* registry, has the key data exactly when success is true and the key error
\* exactly when success is false.
C12_EnvelopeTotality ==
    \A t \in Tasks : op[t].kind = "execute_tool" =>
        /\ inner[t].kind = "return" => Total(inner[t].value)
        /\ ret[t].kind = "return" => Total(ret[t].value)

C12_Witness ==
    \E t \in Tasks :
        /\ ToolRan(t)
        /\ ~ret[t].value.success
        /\ "details" \in DOMAIN ret[t].value /\ "api" \in DOMAIN ret[t].value.details

\* The required argument of the named tool that is absent or empty in the arguments,
\* the first one if there are several; NoneStr if there is none.
Offending(name, arguments) ==
    LET absent(k) == k \notin DOMAIN arguments
        emptyStr(k) == absent(k) \/ arguments[k] \in {NoneStr, ""}
        emptyList(k) == absent(k) \/ arguments[k] = <<>>
    IN CASE name \in {"contain_host", "lift_containment"} ->
              IF emptyStr("device_id") THEN "device_id" ELSE NoneStr
         [] name = "get_device_details" ->
              IF emptyList("device_ids") THEN "device_ids" ELSE NoneStr
         [] name = "get_detection_details" ->
              IF emptyList("detection_ids") THEN "detection_ids" ELSE NoneStr
         [] name = "get_incident_details" ->
              IF emptyList("incident_ids") THEN "incident_ids" ELSE NoneStr
         [] name = "update_detection_status" ->
              IF emptyList("detection_ids") THEN "detection_ids"
              ELSE IF emptyStr("status") THEN "status" ELSE NoneStr
         [] OTHER -> NoneStr

Mentions(text, word) == \E i \in 1..Len(text) : text[i] = word

\* The status given to update_detection_status is not one of the allowed values
BadStatus(name, arguments) ==
    /\ name = "update_detection_status"
    /\ Offending(name, arguments) = NoneStr
    /\ arguments.status \notin {"new", "in_progress", "true_positive", "false_positive",
                                "closed", "ignored", "reopened"}

\* C14: when contain_host has no device_id, get_device_details or get_incident_details
\* has an empty id list, or update_detection_status has a status that is not allowed,
\* the envelope has success=false and the text of its error field contains the name
\* of the offending argument.
C14_ErrorTextNamesArgument ==
    \A t \in Tasks : ToolRan(t) =>
        LET field == IF BadStatus(op[t].name, op[t].arguments) THEN "status"
                     ELSE IF op[t].name \in {"contain_host", "get_device_details",
                                             "get_incident_details"}
                     THEN Offending(op[t].name, op[t].arguments)
                     ELSE NoneStr
        IN field # NoneStr =>
              /\ inner[t].value.success = FALSE
              /\ Mentions(inner[t].value.error, field)

\* C15: update_detection_status with detection ids and a status outside the allowed
\* set returns success=false with a message that enumerates the seven allowed values
\* and issues no business call; a status inside the set is not rejected as invalid.
C15_StatusEnumerated ==
    \A t \in Tasks :
        (ToolRan(t) /\ op[t].name = "update_detection_status"
           /\ Offending(op[t].name, op[t].arguments) = NoneStr)
        => IF BadStatus(op[t].name, op[t].arguments)
           THEN /\ inner[t].value.success = FALSE
                /\ "details" \in DOMAIN inner[t].value
                /\ inner[t].value.details.field = "status"
                /\ \A v \in {"new", "in_progress", "true_positive", "false_positive",
                             "closed", "ignored", "reopened"} :
                       Mentions(inner[t].value.details.message, v)
                /\ BusinessCalls(t) = <<>>
           ELSE ~( /\ "details" \in DOMAIN inner[t].value
                   /\ "field" \in DOMAIN inner[t].value.details )

C15_Witness ==
    \E t \in Tasks :
        /\ ToolRan(t) /\ op[t].name = "update_detection_status"
        /\ op[t].arguments = [detection_ids |-> <<"x">>, status |-> "bogus"]
        /\ provider.initialized
        /\ inner[t].value.details.field = "status"

----------------------------------------------------------------------------
(* The remote call of a tool *)

ActionTools == {"contain_host", "lift_containment", "update_detection_status"}

\* The remote statuses the named tool takes for success
Accepted(name) == IF name \in ActionTools THEN {200, 202} ELSE {200}

\* C16: whatever status the remote service answers to the call of a tool, the
\* envelope has success=true only for 200 (query and details tools) or for 200 and
\* 202 (contain_host, lift_containment, update_detection_status); for any other
\* status it has success=false, status_code equal to the remote status, and details
\* with the API name and the remote error message.
C16_StatusCodeBranching ==
    \A t \in Tasks : (InvokesTool(t) /\ pc[t] = "route") =>
        \A i \in 1..Len(ApiResponses) :
            LET resp == ApiResponses[i]
                r == Route(tools[op[t].name].handler, provider, op[t].name,
                           op[t].arguments, resp, now)
                called == \E j \in 1..Len(r.events) : r.events[j].ev = "business"
            IN (called /\ ~resp.raises) =>
                  IF resp.status_code \in Accepted(op[t].name)
                  THEN r.envelope.success
                  ELSE /\ ~r.envelope.success
                       /\ "status_code" \in DOMAIN r.envelope
                       /\ r.envelope.status_code = resp.status_code
                       /\ "details" \in DOMAIN r.envelope
                       /\ r.envelope.details.api = "CrowdStrike Falcon"
                       /\ r.envelope.details.message =
                              (IF resp.errors = NoneStr THEN <<"Unknown error">>
                               ELSE <<resp.errors>>)

C16_Witness ==
    \E t \in Tasks :
        /\ ToolRan(t) /\ op[t].name = "query_incidents"
        /\ Len(BusinessCalls(t)) = 1
        /\ ~ret[t].value.success
        /\ "status_code" \in DOMAIN ret[t].value /\ ret[t].value.status_code = 202

\* C17: a tool invocation issues at most one business call: exactly one when the
\* validation passes and the handle is available, none when the validation fails;
\* no answer of the remote service, no exception and no refresh adds a second one.
C17_AtMostOneBusinessCall ==
    \A t \in Tasks :
        /\ Len(BusinessCalls(t)) <= 1
        /\ ToolRan(t) =>
              LET valid == /\ Offending(op[t].name, op[t].arguments) = NoneStr
                           /\ ~BadStatus(op[t].name, op[t].arguments)
              IN /\ (valid /\ provider.initialized) => Len(BusinessCalls(t)) = 1
                 /\ ~valid => Len(BusinessCalls(t)) = 0

C17_Witness ==
    \E t \in Tasks :
        /\ ToolRan(t) /\ op[t].expired
        /\ Has(t, "initialize")
        /\ Len(BusinessCalls(t)) = 1
        /\ ~ret[t].value.success

----------------------------------------------------------------------------
(* The handles, the health check and the session *)

Areas == {"hosts", "detects", "incidents"}

\* C18: get_client() and the hosts / detects / incidents accessors raise whenever
\* the provider is not READY and return the bound handles when it is; no handle is
\* returned absent.
C18_HandlesOnlyWhenReady ==
    /\ \A area \in Areas :
          IF provider.initialized
          THEN /\ Accessor(provider, area).kind = "return"
               /\ Accessor(provider, area).value.present
          ELSE Accessor(provider, area).kind = "raise"
    /\ \A t \in Tasks : (op[t].kind = "get_client" /\ pc[t] = "done") =>
          IF provider.initialized
          THEN /\ ret[t].kind = "return"
               /\ \A area \in Areas : ret[t].value[area].present
          ELSE ret[t].kind = "raise" /\ ret[t].exc = "RuntimeError"

C18_Witness ==
    \E t \in Tasks :
        /\ op[t].kind = "get_client" /\ pc[t] = "done"
        /\ ~provider.initialized /\ provider.oauth2.present
        /\ ret[t].kind = "raise"

HealthCalls(t) == SelectSeq(trace[t], LAMBDA e : e.ev = "health")

C20_SessionInvariant ==
    /\ provider.initialized =>
          /\ provider.oauth2.token_value # 0
          /\ \A area \in Areas : provider[area].access_token # 0
    /\ \A t \in Tasks : \A i \in 2..Len(trace[t]) :
          (trace[t][i].ev = "initialize" /\ trace[t][i - 1].ev = "auth")
          => provider.token_expiry > trace[t][i - 1].time

----------------------------------------------------------------------------
(* Routing *)

\* The module whose get_tools() declares the name
DeclaringModule ==
    [n \in Range(AllTools) |-> CHOOSE m \in Range(Modules) : n \in Range(get_tools(m))]

Declaring(name) == DeclaringModule[name]

RegisteredNames ==
    [i \in 1..Len(Modules) |-> Range(get_tools(Modules[i]))]

\* The remote operations the tool functions of a module call
ApisOf(module) ==
    CASE module = "hosts" -> {"hosts.query_devices_by_filter", "hosts.get_device_details",
                              "hosts.perform_action"}
      [] module = "detections" -> {"detects.query_detects", "detects.get_detect_summaries",
                                   "detects.update_detects_by_ids"}
      [] module = "incidents" -> {"incidents.query_incidents", "incidents.get_incidents"}

AllRegistered == \A i \in 1..Len(Modules) : RegisteredNames[i] \subseteq DOMAIN tools

\* C21: once register_module has run for the hosts, detections and incidents modules
\* the registry holds exactly their nine names; every registered name is bound to the
\* execute function of the module that declared it, and execute_tool for that name
\* runs that module's execute function, once, with the name and the arguments given:
\* the tool function of that name answers, never another module's.
C21_Routing ==
    /\ AllRegistered =>
          (DOMAIN tools = Range(AllTools) /\ Cardinality(DOMAIN tools) = 4 + 3 + 2)
    /\ \A n \in DOMAIN tools : tools[n].handler = Declaring(n)
    /\ \A t \in Tasks : InvokesTool(t) =>
          /\ pc[t] = "route" =>
                \A i \in 1..Len(ApiResponses) :
                    \A r \in {Route(tools[op[t].name].handler, provider, op[t].name,
                                    op[t].arguments, ApiResponses[i], now)} :
                       /\ tools[op[t].name].handler = Declaring(op[t].name)
                       /\ r # UnknownTool(op[t].name)
                       /\ "tool" \in DOMAIN r.envelope => r.envelope.tool = op[t].name
          /\ \A i \in 1..Len(trace[t]) :
                trace[t][i].ev = "business" =>
                    trace[t][i].api \in ApisOf(Declaring(op[t].name))
          /\ ToolRan(t) => inner[t].value # UnknownTool(op[t].name).envelope

C21_Witness ==
    \E t \in Tasks :
        /\ AllRegistered
        /\ ToolRan(t) /\ op[t].name = "query_incidents"
        /\ Len(BusinessCalls(t)) = 1
        /\ BusinessCalls(t)[1].api = "incidents.query_incidents"
        /\ ret[t].value.success

----------------------------------------------------------------------------
(* The SDK client *)

\* The calls the client's last call caused
Caused == SubSeq(trace[1], op[1].seen + 1, Len(trace[1]))

\* C22: an API method of the client called while the client is not initialized,
\* before initialize() or after close(), raises RuntimeError saying 'not initialized';
\* it causes no provider call, no remote call, and leaves the client as it was.
C22_ApiNeedsInitializedClient ==
    (op[1].kind = "client.call" /\ ~op[1].before)
    => /\ ret[1].kind = "raise" /\ ret[1].exc = "RuntimeError"
       /\ Mentions(ret[1].msg, "not initialized")
       /\ Caused = <<>>
       /\ ~client

C22_Witness ==
    /\ op[1].kind = "client.call" /\ ~op[1].before
    /\ op[1].method = "contain_host"
    /\ \E i \in 1..Len(trace[1]) : trace[1][i].ev = "shutdown"
    /\ ret[1].kind = "raise"

\* The calls of provider.initialize() and provider.shutdown() so far, in order:
\* all of them, and those that returned
ProviderCalls ==
    LET calls == SelectSeq(trace[1], LAMBDA e : e.ev \in {"initialize", "initialize_failed",
                                                          "shutdown", "shutdown_failed"})
    IN [i \in 1..Len(calls) |->
           IF calls[i].ev \in {"initialize", "initialize_failed"} THEN "initialize"
           ELSE "shutdown"]

ProviderCallsReturned ==
    Kinds(SelectSeq(trace[1], LAMBDA e : e.ev \in {"initialize", "shutdown"}))

Alternates(s) ==
    \A i \in 1..Len(s) : s[i] = (IF i % 2 = 1 THEN "initialize" ELSE "shutdown")

\* What a single initialize() or close() of the client does: nothing on a client that
\* is already in the state asked for, one provider.shutdown() on an initialized
\* client, which is then not initialized, one provider.initialize() otherwise.
OpenAndClose ==
    /\ (op[1].kind = "client.initialize" /\ op[1].before) => (Caused = <<>> /\ client)
    /\ (op[1].kind = "client.close" /\ ~op[1].before) => (Caused = <<>> /\ ~client)
    /\ (op[1].kind = "client.close" /\ op[1].before) =>
          /\ Len(SelectSeq(Caused, LAMBDA e : e.ev = "shutdown")) = 1
          /\ \A i \in 1..Len(Caused) : Caused[i].ev \in {"revoke", "shutdown"}
          /\ ~client
    /\ (op[1].kind = "client.initialize" /\ ~op[1].before) =>
          /\ Len(SelectSeq(Caused, LAMBDA e : e.ev \in {"initialize", "initialize_failed"})) = 1
          /\ \A i \in 1..Len(Caused) :
                Caused[i].ev \in {"auth", "initialize", "initialize_failed"}

\* C23, as stated: over any sequence of initialize() and close() calls of the client,
\* provider.initialize and provider.shutdown are called strictly alternately, starting
\* with initialize; initialize() on an initialized client and close() on one that is
\* not make no provider call, and close() on an initialized client calls
\* provider.shutdown once and leaves the client not initialized.
C23_StrictAlternation ==
    /\ Alternates(ProviderCalls)
    /\ OpenAndClose

\* C23, amended: the calls of provider.initialize that return and the calls of
\* provider.shutdown alternate strictly, starting with initialize.  A call of
\* provider.initialize that raises leaves the client not initialized, and the next
\* initialize() calls provider.initialize again, with no shutdown in between.
C23_AlternationOfReturnedCalls ==
    /\ Alternates(ProviderCallsReturned)
    /\ OpenAndClose
    /\ client <=> (Len(ProviderCallsReturned) % 2 = 1)
    /\ (op[1].kind = "client.initialize" /\ ret[1].kind = "raise") => ~client

C23_Witness ==
    /\ op[1].kind = "client.initialize" /\ ~op[1].before /\ client
    /\ ProviderCallsReturned = <<"initialize", "shutdown", "initialize">>
    /\ ProviderCalls = <<"initialize", "shutdown", "initialize", "initialize">>

----------------------------------------------------------------------------
(* The HTTP endpoints *)

\* C24: the tool-execution endpoint answers with status 200 and, as the body, the
\* envelope ToolRegistry.execute_tool returned, unchanged, also when the envelope has
\* success=false (validation error, remote API error, unknown tool, exception of the
\* handler); it answers 5xx only when there is no server (503, and nothing is
\* called) or when an exception leaves the registry.
C24_EndpointRelaysEnvelope ==
    op[1].kind = "execute" =>
        /\ ret[1].value.status >= 500 => (~op[1].server \/ inner[1].kind = "raise")
        /\ IF ~op[1].server
           THEN /\ ret[1].value.status = 503
                /\ inner[1] = NoResult /\ trace[1] = <<>> /\ provider = op[1].before
           ELSE /\ inner[1].kind = "return"
                /\ ret[1].value.status = 200
                /\ ret[1].value.body = inner[1].value

C24_Witness ==
    /\ op[1].kind = "execute" /\ op[1].server
    /\ op[1].name = "contain_host"
    /\ inner[1].kind = "return" /\ ~inner[1].value.success
    /\ "status_code" \in DOMAIN inner[1].value /\ inner[1].value.status_code = 500
    /\ Has(1, "initialize_failed")
    /\ ret[1].value.status = 200

\* C25: the readiness endpoint never fails: it reports ready=false and
\* provider_healthy=false when there is no server or health_check() raised, and
\* otherwise provider_healthy equal to what health_check() returned; the health
\* endpoint reports 'healthy' whatever state the provider is in.
C25_ReadinessAndHealth ==
    /\ op[1].kind = "ready" =>
          /\ ret[1].kind = "return" /\ ret[1].value.status = 200
          /\ IF ~op[1].server \/ inner[1].kind = "raise"
             THEN ret[1].value.body = [ready |-> FALSE, provider_healthy |-> FALSE]
             ELSE /\ inner[1].kind = "return"
                  /\ ret[1].value.body = [ready |-> TRUE, provider_healthy |-> inner[1].value]
    /\ op[1].kind = "health" =>
          /\ ret[1].kind = "return" /\ ret[1].value.status = 200
          /\ ret[1].value.body.status = "healthy"
          /\ provider = op[1].before /\ trace[1] = <<>>

C25_Witness ==
    /\ op[1].kind = "ready" /\ op[1].server
    /\ op[1].before.initialized /\ ~provider.initialized
    /\ Has(1, "initialize_failed")
    /\ ret[1].value.body = [ready |-> TRUE, provider_healthy |-> FALSE]

\* The health endpoint has been asked with the provider shut down and its expiry passed
HealthAskedWhenDown ==
    /\ op[1].kind = "health" /\ op[1].server
    /\ ~provider.initialized /\ provider.oauth2 = NoClient /\ now >= provider.token_expiry

----------------------------------------------------------------------------
(* The query tools *)

QueryTools == {"query_devices_by_filter", "query_detections", "query_incidents"}

\* The key under which a query tool returns the ids
IdKey(name) ==
    CASE name = "query_devices_by_filter" -> "device_ids"
      [] name = "query_detections" -> "detection_ids"
      [] name = "query_incidents" -> "incident_ids"

\* C26: when the remote call of a query tool answers 200, the envelope is
\* success=true, its data holds exactly the returned resources under the tool's id
\* key, and its metadata is {total, limit, offset}: limit and offset as supplied (100
\* and 0 when not), total the remote meta.pagination.total when the answer has one
\* and the number of returned resources otherwise.
C26_QueryEnvelope ==
    \A t \in Tasks : (InvokesTool(t) /\ pc[t] = "route" /\ op[t].name \in QueryTools) =>
        \A i \in 1..Len(ApiResponses) :
            LET resp == ApiResponses[i]
                arguments == op[t].arguments
                r == Route(tools[op[t].name].handler, provider, op[t].name,
                           arguments, resp, now)
                called == \E j \in 1..Len(r.events) : r.events[j].ev = "business"
            IN (called /\ ~resp.raises /\ resp.status_code = 200) =>
                  /\ r.envelope.success
                  /\ r.envelope.data = (IdKey(op[t].name) :> resp.resources)
                  /\ DOMAIN r.envelope = {"success", "data", "metadata"}
                  /\ r.envelope.metadata =
                        [total |-> IF resp.total = NoneInt THEN Len(resp.resources)
                                   ELSE resp.total,
                         limit |-> IF "limit" \in DOMAIN arguments THEN arguments.limit
                                   ELSE 100,
                         offset |-> IF "offset" \in DOMAIN arguments THEN arguments.offset
                                    ELSE 0]

C26_Witness ==
    \E t \in Tasks :
        /\ ToolRan(t) /\ op[t].name = "query_devices_by_filter"
        /\ op[t].arguments = [limit |-> 10, filter |-> "platform_name:'Windows'"]
        /\ ret[t].value = [success |-> TRUE, data |-> [device_ids |-> <<"r1", "r2">>],
                           metadata |-> [total |-> 5, limit |-> 10, offset |-> 0]]

----------------------------------------------------------------------------
(* The refresh at the head of a dispatch *)

\* The last call's arguments fail the validation of the tool, or its name is not one
\* the module called declares
Rejected ==
    \/ Offending(op[1].name, op[1].arguments) # NoneStr
    \/ BadStatus(op[1].name, op[1].arguments)
    \/ \A i \in 1..Len(get_tools(op[1].module)) : get_tools(op[1].module)[i] # op[1].name

\* C27: execute_tool of every tool module runs refresh_token_if_needed() first,
\* whatever the tool name and the arguments: when the stored expiry has passed, the
\* shutdown and the authentication of the refresh come before anything else, and a
\* call that is then answered with a validation error or with 'Unknown tool' has
\* made them all the same; when the expiry has not passed there is none.
C27_RefreshComesFirst ==
    op[1].kind = "dispatch" =>
        IF op[1].expired
        THEN /\ Len(Lifecycle(1)) >= 2
             /\ Lifecycle(1)[1] = "shutdown"
             /\ Lifecycle(1)[2] \in {"initialize", "initialize_failed"}
             /\ Has(1, "auth")
             /\ trace[1][1].ev \in {"revoke", "shutdown"}
             /\ (Rejected /\ ret[1].kind = "return") =>
                   /\ Lifecycle(1) = <<"shutdown", "initialize">>
                   /\ ~ret[1].value.success
                   /\ provider.initialized
        ELSE /\ ~Has(1, "shutdown") /\ ~Has(1, "auth") /\ ~Has(1, "initialize")
             /\ ~Has(1, "initialize_failed")

C27_Witness ==
    /\ op[1].kind = "dispatch" /\ op[1].expired /\ op[1].ready
    /\ op[1].module = "hosts" /\ op[1].name = "query_incidents"
    /\ ret[1] = Returns(UnknownTool("query_incidents").envelope)
    /\ Lifecycle(1) = <<"shutdown", "initialize">>

\* A dispatch whose arguments fail the validation has refreshed as well
RejectedArgumentsAfterRefresh ==
    /\ op[1].kind = "dispatch" /\ op[1].expired /\ op[1].ready
    /\ op[1].name = "contain_host" /\ op[1].arguments = [device_id |-> ""]
    /\ Lifecycle(1) = <<"shutdown", "initialize">>
    /\ ret[1].kind = "return" /\ ret[1].value.error = <<"Validation error">>

----------------------------------------------------------------------------
(* The provider as concurrent invocations see it *)

\* The flag, the OAuth client and the three handles are those of one authentication
Coherent(p) ==
    /\ p.initialized /\ p.oauth2.present
    /\ \A area \in Areas :
          p[area].present /\ p[area].access_token = p.oauth2.token_value

\* The provider field a remote operation is called through
HandleOf(api) ==
    CASE api \in ApisOf("hosts") -> "hosts"
      [] api \in ApisOf("detections") -> "detects"
      [] api \in ApisOf("incidents") -> "incidents"

\* An invocation about to take a handle finds the provider whole, and the token and
\* the expiry its remote call went out with are the provider's
SeenWhole ==
    \A t \in Tasks :
        /\ (InvokesTool(t) /\ pc[t] = "route") =>
              \A area \in Areas :
                  Accessor(provider, area).kind = "return" => Coherent(provider)
        /\ (op[t].kind = "health_check" /\ pc[t] = "call" /\ provider.hosts.present) =>
              Coherent(provider)
        /\ pc[t] = "done" =>
              \A i \in 1..Len(trace[t]) :
                  trace[t][i].ev \in {"business", "health"} =>
                      /\ Coherent(provider)
                      /\ trace[t][i].token = provider[HandleOf(trace[t][i].api)].access_token
                      /\ trace[t][i].expiry = provider.token_expiry

\* A step that leaves the provider initialized either leaves every field of it as it
\* was, or is one initialize() that wrote them all: the expiry from the clock, the
\* client and the handles with the token of that one authentication
WrittenByOneInitialize ==
    provider'.initialized =>
        IF provider.initialized
        THEN provider' = provider
        ELSE /\ Coherent(provider')
             /\ provider'.token_expiry \in {now + DefaultExpiresIn - SafetyBuffer,
                                            now + SafetyBuffer - SafetyBuffer}
             /\ provider'.oauth2.token_value \in {0, issued + 1}
             /\ \E t \in Tasks : pc[t] = "initialize" /\ running' = t

\* C28: no tool invocation or health check sees a torn provider: whenever one takes
\* a handle and issues its remote call, the expiry, the three handles and the
\* initialized flag it finds were all written by one completed initialize(), not
\* partly by a shutdown or an initialize that another invocation is running.
C28_NoTornProvider == [][WrittenByOneInitialize /\ SeenWhole']_vars

C28_Witness ==
    \E t, u \in Tasks :
        /\ t # u /\ pc[t] = "pending"
        /\ ToolRan(u) /\ ~Has(u, "initialize") /\ lastOp = "initialize"
        /\ Len(BusinessCalls(u)) = 1
        /\ BusinessCalls(u)[1].token = provider.oauth2.token_value
        /\ BusinessCalls(u)[1].token # 0

----------------------------------------------------------------------------
(* The parameters of the remote call *)

\* The caller gave the optional argument a value that is neither null nor empty
Supplied(arguments, k) == k \in DOMAIN arguments /\ arguments[k] \notin {NoneStr, ""}

\* The optional parameter k goes out exactly when it was supplied, with its value
SentIffSupplied(params, arguments, k) ==
    /\ (k \in DOMAIN params) <=> Supplied(arguments, k)
    /\ k \in DOMAIN params => params[k] = arguments[k]

\* C29: optional arguments that were not supplied are left out of the remote call.
\* For the three query tools filter and sort are among the parameters exactly when
\* the caller supplied a non-empty value, never as null or empty, and limit and
\* offset are always sent, 100 and 0 when the caller gave none; comment likewise is
\* sent by update_detection_status exactly when supplied.
C29_OptionalArgumentsOmitted ==
    \A t \in Tasks : InvokesTool(t) =>
        \A i \in 1..Len(trace[t]) :
            LET e == trace[t][i]
                arguments == op[t].arguments
            IN e.ev = "business" =>
                  /\ op[t].name \in QueryTools =>
                        /\ SentIffSupplied(e.params, arguments, "filter")
                        /\ SentIffSupplied(e.params, arguments, "sort")
                        /\ {"limit", "offset"} \subseteq DOMAIN e.params
                        /\ DOMAIN e.params \subseteq {"limit", "offset", "filter", "sort"}
                        /\ e.params.limit = (IF "limit" \in DOMAIN arguments
                                             THEN arguments.limit ELSE 100)
                        /\ e.params.offset = (IF "offset" \in DOMAIN arguments
                                              THEN arguments.offset ELSE 0)
                  /\ op[t].name = "update_detection_status" =>
                        /\ SentIffSupplied(e.params, arguments, "comment")
                        /\ DOMAIN e.params \subseteq {"ids", "status", "comment"}

C29_Witness ==
    \E t \in Tasks :
        /\ ToolRan(t) /\ op[t].name = "query_detections"
        /\ op[t].arguments = [filter |-> "", sort |-> "hostname.asc"]
        /\ Len(BusinessCalls(t)) = 1
        /\ BusinessCalls(t)[1].params = [limit |-> 100, offset |-> 0,
                                         sort |-> "hostname.asc"]

\* The arguments as the SDK client builds them, absent options as null, go out alike
NullOptionsOmitted ==
    \E t \in Tasks :
        /\ ToolRan(t) /\ op[t].name = "query_devices_by_filter"
        /\ op[t].arguments = [filter |-> NoneStr, limit |-> 100, offset |-> 0,
                              sort |-> NoneStr]
        /\ Len(BusinessCalls(t)) = 1
        /\ BusinessCalls(t)[1].params = [limit |-> 100, offset |-> 0]

----------------------------------------------------------------------------
(* The registry's map over its lifetime *)

ReadingCalls == {"execute_tool", "get_all_tools", "list_tool_names", "get_tool"}

\* Every name the registry had when the last call was made is still there
NamesKept == \A n \in DOMAIN op[1].before : n \in DOMAIN tools

\* The calls that read the registry or execute a tool leave the map as it was
ReadsLeaveTheMap == op[1].kind \in ReadingCalls => tools = op[1].before

\* C30: the registry's name-to-tool map only grows: execute_tool, get_all_tools,
\* list_tool_names and get_tool leave it unchanged, and a name the registry has is
\* never removed and never bound to another tool or another handler by a later call.
C30_RegistryOnlyGrows ==
    op[1].kind # "none" =>
        /\ ReadsLeaveTheMap
        /\ NamesKept
        /\ \A n \in DOMAIN op[1].before : tools[n] = op[1].before[n]

\* register_module() over the objects of a registered module raised ValueError and
\* the first of them is now bound to the execute function of that call
C30_Witness ==
    /\ op[1].kind = "register_module" /\ op[1].held
    /\ ret[1].kind = "raise" /\ ret[1].exc = "ValueError"
    /\ DOMAIN tools = DOMAIN op[1].before
    /\ \E n \in DOMAIN tools :
         /\ op[1].before[n].handler = "hosts"
         /\ tools[n].handler = "detections"
         /\ tools[n].descriptor = op[1].before[n].descriptor

\* What does hold: no name is ever removed, no descriptor changes, and the calls
\* that read or execute leave the map as it was
NamesStayAndReadsLeaveTheMap ==
    op[1].kind # "none" =>
        /\ ReadsLeaveTheMap
        /\ NamesKept
        /\ \A n \in DOMAIN op[1].before : tools[n].descriptor = op[1].before[n].descriptor

\* An execution that went to the provider has left the map as it was
ExecutedAndMapKept ==
    /\ op[1].kind = "execute_tool" /\ op[1].name \in DOMAIN tools
    /\ provider.initialized /\ tools = op[1].before

----------------------------------------------------------------------------
(* The audit lines of the host actions *)

\* The logging levels from WARNING up
HighSeverity == {"warning", "error", "critical"}

HighLog(e) == e.ev = "log" /\ e.level \in HighSeverity

\* Task t has run the host action `name` with a device_id that passes the validation
HostActionRan(t, name) ==
    /\ ToolRan(t) /\ op[t].name = name
    /\ Offending(name, op[t].arguments) = NoneStr

\* In task t's trace a line of high severity precedes the remote call and another
\* follows it
AuditedAround(t) ==
    \E i, j, k \in 1..Len(trace[t]) :
        /\ i < j /\ j < k
        /\ HighLog(trace[t][i])
        /\ trace[t][j].ev = "business"
        /\ HighLog(trace[t][k])

\* C31 as stated: contain_host and lift_containment with a valid device_id emit a
\* line of high severity before the remote call and another after it, in that
\* order, whatever the envelope.
C31_MutatingActionsAudited ==
    \A t \in Tasks :
        ((HostActionRan(t, "contain_host") \/ HostActionRan(t, "lift_containment"))
            /\ Has(t, "business"))
        => AuditedAround(t)

\* C31, amended: contain_host with a valid device_id logs the warning 'CRITICAL
\* ACTION: Initiating host containment' before the remote call and a line of high
\* severity after it, whatever the envelope: the warning 'CRITICAL ACTION: Host
\* containment successful' with a success envelope, an error line otherwise (also
\* when the handle could not be had and no call was made).  lift_containment logs at
\* level info only, and nothing after a remote call that answered a non-success
\* status.
C31_ContainHostAudited ==
    \A t \in Tasks :
        /\ HostActionRan(t, "contain_host") =>
              LET first == CHOOSE i \in 1..Len(trace[t]) :
                              /\ trace[t][i].ev = "log"
                              /\ \A j \in 1..(i - 1) : trace[t][j].ev \notin {"log", "business"}
              IN /\ \E i \in 1..Len(trace[t]) : trace[t][i].ev = "log"
                 /\ trace[t][first] =
                        Log("warning", "CRITICAL ACTION: Initiating host containment")
                 /\ Has(t, "business") => AuditedAround(t)
                 /\ HighLog(Last(trace[t]))
                 /\ inner[t].value.success <=>
                        Last(trace[t]) =
                            Log("warning", "CRITICAL ACTION: Host containment successful")
                 /\ ~inner[t].value.success => Last(trace[t]).level = "error"
        /\ HostActionRan(t, "lift_containment") =>
              /\ \A i \in 1..Len(trace[t]) :
                    (trace[t][i].ev = "log" /\ trace[t][i].level # "info")
                    => (i = Len(trace[t]) /\ "status_code" \notin DOMAIN inner[t].value)
              /\ (Has(t, "business") /\ "status_code" \in DOMAIN inner[t].value)
                    => Last(trace[t]).ev = "business"

\* contain_host was answered a non-success status: the warning, the call, the error line
C31_Witness ==
    \E t \in Tasks :
        /\ HostActionRan(t, "contain_host") /\ Has(t, "business")
        /\ "status_code" \in DOMAIN inner[t].value /\ inner[t].value.status_code = 500
        /\ Last(trace[t]) = Log("error", "Host containment failed")

\* lift_containment was answered a non-success status and logged nothing after the call
LiftFailedUnlogged ==
    \E t \in Tasks :
        /\ HostActionRan(t, "lift_containment") /\ Has(t, "business")
        /\ "status_code" \in DOMAIN inner[t].value
        /\ Last(trace[t]).ev = "business"

----------------------------------------------------------------------------
(* The arguments in the registry's log *)

\* The last call was execute_tool for a registered name
ExecutedRegistered == op[1].kind = "execute_tool" /\ op[1].name \in DOMAIN op[1].before

\* C32: ToolRegistry.execute_tool leaves password, secret and token out of the copy
\* of the arguments it logs and out of nothing else: every other key is logged with
\* its value, the handler is entered with the caller's mapping, those keys
\* included, and the caller's mapping is as it was when the call has ended.
C32_OnlyTheLoggedCopyIsRedacted ==
    ExecutedRegistered =>
        /\ Len(trace[1]) >= 3
        /\ trace[1][1].ev = "log" /\ trace[1][1].message = "Executing tool"
        /\ DOMAIN trace[1][1].arguments = DOMAIN op[1].arguments \ DenyList
        /\ \A k \in DOMAIN trace[1][1].arguments :
              trace[1][1].arguments[k] = op[1].arguments[k]
        /\ trace[1][2] = HandlerCall(op[1].name, op[1].arguments)
        /\ \A i \in 3..Len(trace[1]) : trace[1][i].ev # "handler"
        /\ op[1].after = op[1].arguments

C32_Witness ==
    /\ ExecutedRegistered
    /\ {"password", "secret", "token"} \subseteq DOMAIN op[1].arguments
    /\ DOMAIN trace[1][1].arguments = {"filter"}
    /\ trace[1][2].arguments.password = "pw"
    /\ \E i \in 1..Len(trace[1]) :
          trace[1][i].ev = "business" /\ trace[1][i].params.filter = "platform_name:'Windows'"

----------------------------------------------------------------------------
(* The refresh on a provider that is not READY *)

\* Task t's tool invocation has ended
Invoked(t) == InvokesTool(t) /\ pc[t] = "done"

\* Every business call in task t's trace comes after an initialize() that returned
BusinessAfterInitialize(t) ==
    \A i \in 1..Len(trace[t]) :
        trace[t][i].ev = "business" =>
            \E j \in 1..(i - 1) : trace[t][j].ev = "initialize"

\* C33: refresh_token_if_needed() looks at the stored expiry only, and shutdown()
\* leaves the stored expiry as it was.  A tool invocation that finds the provider not
\* initialized with the stored expiry passed (never initialized, expiry 0, or shut
\* down since) goes through shutdown() and the authentication exchange, and makes a
\* business call only after an initialize() that returned, with the provider READY;
\* one that finds it not initialized with the stored expiry ahead makes no
\* authentication exchange and no remote call and returns an error envelope.
C33_RefreshLooksAtTheExpiryOnly ==
    \A t \in Tasks :
        /\ (op[t].kind = "shutdown" /\ pc[t] = "done")
              => provider.token_expiry = op[t].before.token_expiry
        /\ Invoked(t) =>
              /\ Has(t, "shutdown") <=> op[t].expired
              /\ (~op[t].ready /\ op[t].expired) =>
                    /\ Has(t, "auth")
                    /\ BusinessAfterInitialize(t)
                    /\ Has(t, "business") => provider.initialized
              /\ (~op[t].ready /\ ~op[t].expired) =>
                    /\ ~Has(t, "auth") /\ ~Has(t, "revoke")
                    /\ ~Has(t, "business")
                    /\ ret[t].kind = "return" /\ ~ret[t].value.success
                    /\ ~provider.initialized

\* A provider that had been initialized and is no longer, its stored expiry passed,
\* is authenticated again by a tool invocation, which then makes its business call
C33_Witness ==
    \E t \in Tasks :
        /\ Invoked(t) /\ ~op[t].ready /\ op[t].expired
        /\ issued = 2
        /\ Lifecycle(t) = <<"shutdown", "initialize", "business">>
        /\ provider.initialized

\* A tool invocation right after a shutdown(), the stored expiry still ahead
ShutDownNotExpired ==
    \E t \in Tasks :
        /\ Invoked(t) /\ ~op[t].ready /\ ~op[t].expired
        /\ lastOp = "shutdown" /\ provider.token_expiry > now
        /\ ret[t].value.error = <<"Failed to query devices: ", "Provider not initialized">>

\* A tool invocation on a provider that was never initialized
NeverInitializedRefreshed ==
    \E t \in Tasks :
        /\ Invoked(t) /\ ~op[t].ready /\ op[t].expired /\ issued = 1
        /\ Lifecycle(t) = <<"shutdown", "initialize", "business">>

----------------------------------------------------------------------------
(* After a refresh whose initialize() failed *)

\* The last dispatch called a tool its module declares with arguments that pass
\* the validation
WellFormed == op[1].kind = "dispatch" /\ ~Rejected

\* C34 as stated: when the initialize() of a refresh fails, the provider is left not
\* initialized with the stored expiry it had and the error leaves
\* refresh_token_if_needed(); every dispatch that finds the provider not initialized
\* makes the authentication exchange again, and one whose exchange succeeds leaves
\* the provider READY and makes its business call.
C34_RecoversOnNextInvocation ==
    op[1].kind = "dispatch" =>
        /\ Has(1, "initialize_failed") =>
              /\ ~provider.initialized
              /\ provider.token_expiry = op[1].before.token_expiry
              /\ ret[1].kind = "raise"
        /\ ~op[1].ready => Has(1, "auth")
        /\ (~op[1].ready /\ Has(1, "initialize")) =>
              /\ provider.initialized
              /\ WellFormed => Last(Lifecycle(1)) = "business"

\* A dispatch found the provider not initialized with the stored expiry ahead: it
\* made no authentication exchange and answered 'Provider not initialized'
C34_Witness ==
    /\ WellFormed /\ ~op[1].ready /\ ~op[1].expired
    /\ op[1].before.oauth2.present
    /\ ~Has(1, "auth") /\ ~Has(1, "business")
    /\ ret[1].kind = "return" /\ ~ret[1].value.success
    /\ ~provider.initialized

\* What does hold: a failed initialize() of a refresh leaves the provider not
\* initialized and its error leaves the dispatch; unless the answer was a 201
\* without a token, the stored expiry is as it was; a dispatch that finds the
\* provider not initialized and the stored expiry passed makes the exchange, and
\* one whose exchange succeeds leaves the provider READY and makes its business call.
RecoversOnceTheExpiryHasPassed ==
    op[1].kind = "dispatch" =>
        /\ Has(1, "initialize_failed") =>
              /\ ~provider.initialized
              /\ ret[1].kind = "raise"
              /\ ret[1].msg[2] # "'access_token'" =>
                    provider.token_expiry = op[1].before.token_expiry
        /\ (~op[1].ready /\ op[1].expired) => Has(1, "auth")
        /\ (~op[1].ready /\ Has(1, "initialize")) =>
              /\ provider.initialized
              /\ WellFormed => Last(Lifecycle(1)) = "business"

\* A refresh failed on a rejected exchange and the next dispatch recovered
RecoveredAfterRejection ==
    /\ WellFormed /\ ~op[1].ready /\ op[1].expired /\ op[1].before.oauth2.present
    /\ Lifecycle(1) = <<"shutdown", "initialize", "business">>
    /\ provider.initialized

----------------------------------------------------------------------------
(* The client's flag and the provider's *)

\* C35: whenever the client's _initialized is true its provider is initialized,
\* whatever initialize(), API calls and close() the client has gone through.
C35_ClientFlagImpliesProviderReady == client => provider.initialized

\* An API call on an initialized client whose refresh failed: the exception left
\* the call, and the client is initialized over a provider that is not
C35_Witness ==
    /\ op[1].kind = "client.call" /\ op[1].before
    /\ ret[1].kind = "raise" /\ ret[1].exc = "ConnectionError"
    /\ Kinds(Caused) = <<"revoke", "shutdown", "auth", "initialize_failed">>
    /\ client /\ ~provider.initialized

\* What does hold: the flags differ only after an API call whose refresh failed,
\* a provider is never initialized under a client that is not, and an initialize()
\* that found the client not initialized or a close() leaves the flags equal
FlagsDifferOnlyAfterFailedRefresh ==
    /\ (client /\ ~provider.initialized) =>
          \E i \in 1..Len(trace[1]) : trace[1][i].ev = "initialize_failed"
    /\ ( /\ ret[1].kind = "return"
         /\ \/ op[1].kind = "client.close"
            \/ op[1].kind = "client.initialize" /\ ~op[1].before )
          => client = provider.initialized
    /\ ~client => ~provider.initialized

\* initialize() on such a client returns without a provider call: the client stays
\* initialized over a provider that is not
InitializeDoesNotRepair ==
    /\ op[1].kind = "client.initialize" /\ op[1].before /\ Caused = <<>>
    /\ ret[1].kind = "return"
    /\ client /\ ~provider.initialized

----------------------------------------------------------------------------
(* The handle of a business call *)

\* Between a shutdown() and a later business call of task t there is an
\* authentication exchange and an initialize() that returned
ReinitializedBetween(t, i, j) ==
    \E a, k \in (i + 1)..(j - 1) :
        /\ a < k
        /\ trace[t][a].ev = "auth"
        /\ trace[t][k].ev = "initialize"

\* C36: every business call goes through the handle the most recent successful
\* initialize() created: the tool takes provider.hosts / detects / incidents after
\* its refresh, so the call carries the token of the provider's current OAuth
\* client, the newest the service has issued, and after a shutdown() in the same
\* invocation (which revoked the token before it) there has been an authentication
\* exchange and an initialize() that returned.
C36_BusinessCallsUseTheCurrentHandle ==
    \A t \in Tasks : \A j \in 1..Len(trace[t]) :
        trace[t][j].ev = "business" =>
            /\ \A i \in 1..(j - 1) :
                  trace[t][i].ev = "shutdown" => ReinitializedBetween(t, i, j)
            /\ pc[t] = "done" =>
                  /\ provider.initialized
                  /\ provider.oauth2.present
                  /\ trace[t][j].token = provider.oauth2.token_value
                  /\ trace[t][j].token = provider.hosts.access_token
                  /\ trace[t][j].token = provider.detects.access_token
                  /\ trace[t][j].token = provider.incidents.access_token
                  /\ trace[t][j].token > 0 => trace[t][j].token = issued

\* A refresh revoked the first token and the business call carries the second
C36_Witness ==
    \E t \in Tasks :
        /\ Invoked(t) /\ op[t].ready /\ op[t].expired
        /\ Kinds(trace[t]) = <<"revoke", "shutdown", "auth", "initialize", "business">>
        /\ trace[t][1].outcome = "ok"
        /\ Last(trace[t]).token = 2 /\ issued = 2

----------------------------------------------------------------------------
(* health_check() after a failed re-authentication *)

\* The last request was GET /ready and reached health_check()
HealthChecked == op[1].kind = "ready" /\ op[1].server

\* C37: when the re-authentication inside health_check() fails, health_check()
\* returns False and leaves the provider not initialized; a health_check() that
\* finds the provider not initialized returns False with no authentication
\* exchange and no remote call and leaves the provider as it was, so this goes on
\* until something else initializes the provider.
C37_HealthCheckStaysFalse ==
    HealthChecked =>
        /\ Has(1, "initialize_failed") =>
              /\ inner[1] = Returns(FALSE)
              /\ ~provider.initialized
              /\ ~Has(1, "health")
              /\ ret[1].value.body = [ready |-> TRUE, provider_healthy |-> FALSE]
        /\ ~op[1].before.initialized =>
              /\ inner[1] = Returns(FALSE)
              /\ trace[1] = <<>>
              /\ provider = op[1].before
              /\ ret[1].value.body = [ready |-> TRUE, provider_healthy |-> FALSE]

\* The re-authentication inside health_check() failed
C37_Witness ==
    /\ HealthChecked /\ op[1].before.initialized
    /\ Kinds(trace[1]) = <<"revoke", "shutdown", "auth", "initialize_failed">>
    /\ inner[1] = Returns(FALSE)
    /\ ~provider.initialized /\ provider.oauth2.present

\* A later health_check() on the provider a failed re-authentication left behind
HealthCheckAfterFailure ==
    /\ HealthChecked /\ ~op[1].before.initialized /\ op[1].before.oauth2.present
    /\ op[1].time >= op[1].before.token_expiry
    /\ inner[1] = Returns(FALSE) /\ trace[1] = <<>>

----------------------------------------------------------------------------
(* register_module() stopped half way *)

\* The names the module of the last register_module() call declares
Declared == get_tools(op[1].module)

\* The last call was register_module() and one of the names was taken
ModuleClashed ==
    /\ op[1].kind = "register_module"
    /\ \E i \in 1..Len(Declared) : Declared[i] \in DOMAIN op[1].before

\* The place of the first declared name that was taken
FirstTaken ==
    CHOOSE k \in 1..Len(Declared) :
        /\ Declared[k] \in DOMAIN op[1].before
        /\ \A i \in 1..(k - 1) : Declared[i] \notin DOMAIN op[1].before

\* C38: register_module() is not atomic: when a name the module declares is already
\* registered it raises ValueError at the first such tool; the tools before it in
\* the list are registered, bound to the module's execute function, the tools
\* after it are not registered by the call, and every name the registry had is
\* bound as it was.
C38_RegisterModuleStopsAtTheClash ==
    ModuleClashed =>
        /\ ret[1] = Raises("ValueError",
                           <<"Tool '", Declared[FirstTaken], "' is already registered">>)
        /\ \A i \in 1..(FirstTaken - 1) :
              /\ Declared[i] \in DOMAIN tools
              /\ tools[Declared[i]] = Tool(Declared[i], op[1].module, op[1].module)
        /\ \A i \in (FirstTaken + 1)..Len(Declared) :
              Declared[i] \notin DOMAIN op[1].before => Declared[i] \notin DOMAIN tools
        /\ \A n \in DOMAIN op[1].before : n \in DOMAIN tools /\ tools[n] = op[1].before[n]
        /\ DOMAIN tools =
              DOMAIN op[1].before \cup {Declared[i] : i \in 1..(FirstTaken - 1)}

\* The hosts module was registered over a registry that had its third name: two
\* tools went in, the fourth did not
C38_Witness ==
    /\ ModuleClashed /\ op[1].module = "hosts"
    /\ DOMAIN op[1].before = {"contain_host"}
    /\ op[1].before["contain_host"].handler = CustomModule
    /\ DOMAIN tools = {"query_devices_by_filter", "get_device_details", "contain_host"}
    /\ tools["get_device_details"].handler = "hosts"
    /\ tools["contain_host"].handler = CustomModule

====
